---------------------------- MODULE Spec2Model ----------------------------
(***************************************************************************)
(* Billing-analytics backend: the import path (DataProcessorService) that  *)
(* appends transactions and folds them into one ProcedureSummary per       *)
(* procedure identifier, alone and with several imports in flight; the     *)
(* upload handler that calls it; and the requests that read both tables:   *)
(* the dynamic grouping engine (AnalyticsEngine.get_dynamic_matrix), the   *)
(* recovery rates (PaymentRecoveryService), the anomaly lists              *)
(* (AnomalyDetectorService) and the look-ups by patient and procedure.     *)
(*                                                                         *)
(* Money is held in cents (Numeric(12,2)), dates as day numbers, a         *)
(* nullable value as <<>> (NULL) or <<v>>.  collection_rate is held in     *)
(* hundredths of a percent (Numeric(10,2)).                                *)
(***************************************************************************)
EXTENDS Integers, Sequences, FiniteSets, TLC

VARIABLES
    transactions,   \* the transactions table, in insertion (id) order
    summaries,      \* the procedure_summary table, in insertion (id) order
    response,       \* the outcome of the last operation
    completed,      \* procedure identifiers of the imports that returned
    uploads,        \* the uploads table, in insertion (id) order
    sessions,       \* the imports in flight, one database session each
    files           \* the files of settings.upload_dir, in order of creation

vars == <<transactions, summaries, response, completed, uploads, sessions, files>>

-----------------------------------------------------------------------------
(* Bounds of the model *)

MaxRows == 2        \* rows of one imported row-set
MaxTx == 3          \* rows of the transactions table, import specification
MaxMatrixTx == 2    \* rows of the transactions table, matrix specification
MaxDims == 2        \* length of a group_by list
MaxRecoveryTx == 3  \* rows of the transactions table, recovery specification
MaxAnomalyTx == 3   \* rows of the transactions table, anomaly specification
MaxLookupTx == 3    \* rows of the transactions table, look-up specification
MaxUploads == 2     \* rows of the uploads table
MaxFiles == 3       \* files of the upload directory
MaxSessions == 3    \* imports of the concurrent specification
MaxRaceRows == 1    \* rows of one row-set, concurrent specification
MaxOrderTx == 2     \* rows of the transactions table, fixed-matrix specification
MaxDistProcs == 4   \* procedures of the distribution specification

-----------------------------------------------------------------------------
(* Values *)

None == <<>>
Some(v) == <<v>>
IsNone(x) == x = <<>>
Val(x) == x[1]

ProcSeq == <<"P1", "P2">>
ProcIds == {ProcSeq[i] : i \in DOMAIN ProcSeq}

RECURSIVE SumInts(_)
SumInts(s) == IF s = <<>> THEN 0 ELSE Head(s) + SumInts(Tail(s))

Col(rows, name) == [i \in DOMAIN rows |-> rows[i][name]]

SetMin(S) == CHOOSE x \in S : \A y \in S : x <= y
SetMax(S) == CHOOSE x \in S : \A y \in S : x >= y

\* round(n / d, 0) for d > 0: to the nearest integer, a tie to the even one
RoundDiv(n, d) ==
    LET q == n \div d
        r == n % d
    IN  IF 2 * r < d THEN q
        ELSE IF 2 * r > d THEN q + 1
        ELSE IF q % 2 = 0 THEN q ELSE q + 1

-----------------------------------------------------------------------------
(* The parsed row-set (ExcelParserService.parse_file): the columns the     *)
(* sheet had, and its rows.  A field of an absent column holds the value   *)
(* row.get() gives for it.                                                 *)

OptionalCols == {"charges", "total_payments", "adjustments",
                 "date_of_entry", "date_of_deposit"}

ColumnSets == { OptionalCols,
                OptionalCols \ {"charges"},
                OptionalCols \ {"charges", "date_of_entry"},
                OptionalCols \ {"total_payments", "date_of_deposit"} }

ChartOf(p) == IF p = "P1" THEN 1 ELSE 2

BaseRow(p) ==
    [ procedure_id |-> p, chart_number |-> Some(ChartOf(p)),
      date_of_service |-> 2, date_of_entry |-> None, date_of_deposit |-> None,
      charges |-> 0, total_payments |-> 0, adjustments |-> 0,
      type_code |-> Some("T1"), surgery_type |-> Some("X"),
      visit_primary_carrier |-> Some("C1"), billing_subcategory |-> Some("B1") ]

\* rows of the import specification: charge, payment, adjustment and empty
\* lines of one procedure
LedgerRows(cols) ==
    LET entry == IF "date_of_entry" \in cols THEN Some(1) ELSE None
        base(p) == [BaseRow(p) EXCEPT !.date_of_entry = entry]
        chargeAmts == IF "charges" \in cols THEN {100, 300, 0 - 100} ELSE {}
        payAmts == IF "total_payments" \in cols THEN {50, 95} ELSE {}
        adjAmts == IF "adjustments" \in cols THEN {95} ELSE {}
        deposits == IF "date_of_deposit" \in cols
                    THEN {Some(1), Some(3)} ELSE {None}
    IN  UNION { { base(p) } \cup
                { [base(p) EXCEPT !.charges = c] : c \in chargeAmts } \cup
                { [base(p) EXCEPT !.total_payments = a, !.date_of_deposit = d] :
                      a \in payAmts, d \in deposits } \cup
                { [base(p) EXCEPT !.adjustments = a] : a \in adjAmts }
              : p \in ProcIds }

SeqsUpTo(S, n) == UNION { [1..k -> S] : k \in 1..n }

\* the row-sets of at most n rows
LedgerFrames(n) ==
    UNION { { [cols |-> cs, rows |-> rs] : rs \in SeqsUpTo(LedgerRows(cs), n) }
          : cs \in ColumnSets }

\* rows of the matrix specification: every line carries a charge and a
\* payment deposited on day 3, the day of service or the day after it, and
\* the grouping columns vary
MatrixRows ==
    { [ BaseRow(p) EXCEPT
          !.date_of_entry = Some(1), !.date_of_deposit = Some(3),
          !.charges = 100, !.total_payments = 50,
          !.date_of_service = d,
          !.type_code = Some(ts[1]), !.surgery_type = Some(ts[2]),
          !.visit_primary_carrier = c, !.billing_subcategory = b ] :
        p \in ProcIds, d \in {2, 3},
        ts \in {<<"T1", "X">>, <<"T1", "Y">>, <<"T2", "X">>},
        c \in {Some("C1"), None},
        b \in {Some("B1"), Some("B2")} }

MatrixFrames(n) ==
    { [cols |-> OptionalCols, rows |-> rs] : rs \in SeqsUpTo(MatrixRows, n) }

-----------------------------------------------------------------------------
(* DataProcessorService._save_transactions *)

ToTransaction(row) ==
    [ procedure_id |-> row.procedure_id,
      chart_number |-> row.chart_number,
      date_of_service |-> row.date_of_service,
      date_of_entry |-> row.date_of_entry,
      date_of_deposit |-> row.date_of_deposit,
      charges |-> row.charges,
      total_payments |-> row.total_payments,
      adjustments |-> row.adjustments,
      type_code |-> row.type_code,
      surgery_type |-> row.surgery_type,
      visit_primary_carrier |-> row.visit_primary_carrier,
      billing_subcategory |-> row.billing_subcategory ]

\* the table replaced by the rows of the row-set
SaveTransactionsReplacing(txs, df) ==
    [i \in DOMAIN df.rows |-> ToTransaction(df.rows[i])]

SaveTransactions(txs, df) ==
    txs \o [i \in DOMAIN df.rows |-> ToTransaction(df.rows[i])]

-----------------------------------------------------------------------------
(* DataProcessorService._build_procedure_summaries *)

\* ProcedureSummary(procedure_id=...): every other attribute still unset
NewSummary(p) ==
    [ procedure_id |-> p, chart_number |-> None, date_of_service |-> None,
      type_code |-> None, surgery_type |-> None, primary_carrier |-> None,
      total_charges |-> 0, total_payments |-> 0, total_adjustments |-> 0,
      first_charge_date |-> None, first_payment_date |-> None,
      last_payment_date |-> None, days_to_first_payment |-> None,
      collection_rate |-> None, status |-> None ]

\* the column default applied to an unset status by the INSERT
StatusDefault(s) ==
    IF IsNone(s.status) THEN [s EXCEPT !.status = Some("pending")] ELSE s

\* the query without its filter: the first row of the table, whatever its key
FindExistingUnfiltered(sums, p) ==
    IF sums = <<>> THEN None ELSE Some(1)

\* query(ProcedureSummary).filter(procedure_id == proc_id).first()
FindExisting(sums, p) ==
    LET hits == { i \in DOMAIN sums : sums[i].procedure_id = p }
    IN  IF hits = {} THEN None ELSE Some(SetMin(hits))

GroupOf(df, p) == SelectSeq(df.rows, LAMBDA r : r.procedure_id = p)

GroupKeys(df) == { df.rows[i].procedure_id : i \in DOMAIN df.rows }

\* group["charges"] / group["total_payments"] indexed without a column check
GroupRaises(cols) ==
    \/ "date_of_entry" \in cols /\ "charges" \notin cols
    \/ "date_of_deposit" \in cols /\ "total_payments" \notin cols

\* pandas' Series.sum() over a column, 0 for a column the sheet lacks
ColumnSum(group, cols, name) ==
    IF name \in cols THEN SumInts(Col(group, name)) ELSE 0

ChargeDates(group) ==
    { Val(group[i].date_of_entry) :
        i \in { j \in DOMAIN group :
                  group[j].charges > 0 /\ ~IsNone(group[j].date_of_entry) } }

PaymentDates(group) ==
    { Val(group[i].date_of_deposit) :
        i \in { j \in DOMAIN group :
                  group[j].total_payments > 0 /\ ~IsNone(group[j].date_of_deposit) } }

\* the rate cut to two decimals instead of rounded
CollectionRateTruncated(charges, payments) ==
    IF charges # 0 /\ charges > 0
    THEN Some((payments * 10000) \div charges)
    ELSE Some(0)

CollectionRate(charges, payments) ==
    IF charges # 0 /\ charges > 0
    THEN Some(RoundDiv(payments * 10000, charges))
    ELSE Some(0)

\* the status the branch assigns, or the value the object already carries
DeriveStatus(old, charges, payments, adjustments) ==
    IF charges > 0
    THEN IF 100 * payments >= 95 * charges THEN Some("collected")
         ELSE IF payments > 0 THEN Some("partial")
         ELSE IF 100 * adjustments >= 95 * charges THEN Some("written_off")
         ELSE Some("pending")
    ELSE old

\* the totals added onto the values the summary already carries
SummarizeGroupAccumulating(summary, group, cols) ==
    [ summary EXCEPT
        !.chart_number = group[1].chart_number,
        !.date_of_service = Some(group[1].date_of_service),
        !.surgery_type = group[1].surgery_type,
        !.type_code = group[1].type_code,
        !.primary_carrier = group[1].visit_primary_carrier,
        !.total_charges = @ + ColumnSum(group, cols, "charges"),
        !.total_payments = @ + ColumnSum(group, cols, "total_payments"),
        !.total_adjustments = @ + ColumnSum(group, cols, "adjustments"),
        !.collection_rate =
            CollectionRate(summary.total_charges + ColumnSum(group, cols, "charges"),
                           summary.total_payments
                               + ColumnSum(group, cols, "total_payments")),
        !.status = Some("pending") ]

\* one group folded into its summary object (new, or the existing row)
SummarizeGroup(summary, group, cols) ==
    LET first_row == group[1]
        charges == ColumnSum(group, cols, "charges")
        payments == ColumnSum(group, cols, "total_payments")
        adjustments == ColumnSum(group, cols, "adjustments")
        cdates == IF "date_of_entry" \in cols THEN ChargeDates(group) ELSE {}
        pdates == IF "date_of_deposit" \in cols THEN PaymentDates(group) ELSE {}
        first_charge == IF cdates # {} THEN Some(SetMin(cdates))
                        ELSE summary.first_charge_date
        first_pay == IF pdates # {} THEN Some(SetMin(pdates))
                     ELSE summary.first_payment_date
        last_pay == IF pdates # {} THEN Some(SetMax(pdates))
                    ELSE summary.last_payment_date
        days == IF ~IsNone(first_pay)
                THEN Some(Val(first_pay) - first_row.date_of_service)
                ELSE summary.days_to_first_payment
    IN  [ summary EXCEPT
            !.chart_number = first_row.chart_number,
            !.date_of_service = Some(first_row.date_of_service),
            !.surgery_type = first_row.surgery_type,
            !.type_code = first_row.type_code,
            !.primary_carrier = first_row.visit_primary_carrier,
            !.total_charges = charges,
            !.total_payments = payments,
            !.total_adjustments = adjustments,
            !.first_charge_date = first_charge,
            !.first_payment_date = first_pay,
            !.last_payment_date = last_pay,
            !.days_to_first_payment = days,
            !.collection_rate = CollectionRate(charges, payments),
            !.status = DeriveStatus(summary.status, charges, payments, adjustments) ]

\* the loop over df.groupby("procedure_id"), from the k-th identifier on:
\* the table as the session holds it, and the number of summaries added
RECURSIVE BuildFrom(_, _, _, _)
BuildFrom(sums, df, k, count) ==
    IF k > Len(ProcSeq) THEN [sums |-> sums, count |-> count]
    ELSE LET p == ProcSeq[k]
         IN  IF p \notin GroupKeys(df) THEN BuildFrom(sums, df, k + 1, count)
             ELSE LET existing == FindExisting(sums, p)
                      old == IF IsNone(existing) THEN NewSummary(p)
                             ELSE sums[Val(existing)]
                      new == SummarizeGroup(old, GroupOf(df, p), df.cols)
                  IN  IF IsNone(existing)
                      THEN BuildFrom(Append(sums, StatusDefault(new)), df, k + 1, count + 1)
                      ELSE BuildFrom([sums EXCEPT ![Val(existing)] = new], df, k + 1, count)

\* the unique index on procedure_summary.procedure_id, checked by the commit
UniqueProcedureIds(sums) ==
    \A i, j \in DOMAIN sums : sums[i].procedure_id = sums[j].procedure_id => i = j

\* [ok, sums, count]: ok is FALSE when the loop or the commit raised, and then
\* the table is as it was
BuildProcedureSummaries(sums, df) ==
    LET built == BuildFrom(sums, df, 1, 0)
    IN  IF GroupRaises(df.cols) THEN [ok |-> FALSE, sums |-> sums, count |-> 0]
        ELSE IF ~UniqueProcedureIds(built.sums) THEN [ok |-> FALSE, sums |-> sums, count |-> 0]
        ELSE [ok |-> TRUE, sums |-> built.sums, count |-> built.count]

-----------------------------------------------------------------------------
(* DataProcessorService.process_upload *)

PatientsCount(df) ==
    Cardinality({ Val(df.rows[i].chart_number) :
                    i \in { j \in DOMAIN df.rows : ~IsNone(df.rows[j].chart_number) } })

NoResponse ==
    [ op |-> "none", ok |-> TRUE, status |-> 0, ids |-> {},
      df |-> [cols |-> {}, rows |-> <<>>],
      transactions_imported |-> 0, procedures_created |-> 0, patients_count |-> 0,
      group_by |-> <<>>, date_from |-> None, date_to |-> None,
      data |-> <<>>, summary |-> None, queries |-> 0, detail |-> "",
      request |-> <<>>, body |-> <<>> ]

\* A request that only reads leaves the tables as they are, so the state
\* after a second such request in a row is the state that request reaches
\* when issued first: the model issues a reading request only after an
\* import (or at the start).
AfterImport == response.op \in {"none", "process_upload"}

ProcessUpload(df) ==
    /\ df.rows # <<>>
    /\ LET built == BuildProcedureSummaries(summaries, df)
       IN  /\ transactions' = SaveTransactions(transactions, df)
           /\ summaries' = built.sums
           /\ completed' = IF built.ok THEN completed \cup GroupKeys(df) ELSE completed
           /\ response' = [ NoResponse EXCEPT
                              !.op = "process_upload",
                              !.ok = built.ok,
                              !.ids = GroupKeys(df),
                              !.df = df,
                              !.transactions_imported = IF built.ok THEN Len(df.rows) ELSE 0,
                              !.procedures_created = built.count,
                              !.patients_count = IF built.ok THEN PatientsCount(df) ELSE 0 ]
    /\ UNCHANGED <<uploads, sessions, files>>

Init ==
    /\ transactions = <<>>
    /\ summaries = <<>>
    /\ response = NoResponse
    /\ completed = {}
    /\ uploads = <<>>
    /\ sessions = <<>>
    /\ files = <<>>

\* the room left in the transactions table bounds the row-set
Room(max) == IF max - Len(transactions) < MaxRows
             THEN max - Len(transactions) ELSE MaxRows

ImportLedger == \E df \in LedgerFrames(Room(MaxTx)) : ProcessUpload(df)

Next == ImportLedger

Spec == Init /\ [][Next]_vars


-----------------------------------------------------------------------------
(* AnalyticsEngine.get_dynamic_matrix *)

DimNames == {"surgery_type", "carrier", "billing_subcategory", "patient", "procedure_id"}

\* the switch looking at the first dimension only
UseTransactionTableFirstOnly(group_by) ==
    group_by # <<>> /\ group_by[1] = "billing_subcategory"

\* 'billing_subcategory' in group_by
UseTransactionTable(group_by) ==
    \E i \in DOMAIN group_by : group_by[i] = "billing_subcategory"

\* model: the table the query reads
TableOf(useTx) == IF useTx THEN transactions ELSE summaries

\* dimension_config[dim]['column'] read off one record, NULL as <<>>
DimValue(useTx, rec, dim) ==
    IF dim = "surgery_type" THEN rec.type_code
    ELSE IF dim = "carrier"
         THEN (IF useTx THEN rec.visit_primary_carrier ELSE rec.primary_carrier)
    ELSE IF dim = "billing_subcategory"
         THEN (IF useTx THEN rec.billing_subcategory ELSE None)
    ELSE IF dim = "patient" THEN rec.chart_number
    ELSE Some(rec.procedure_id)

\* dimension_config[dim]['name_column'] read off one record
NameValue(rec, dim) ==
    IF dim = "surgery_type" THEN rec.surgery_type ELSE None

\* date_column
DateValue(useTx, rec) ==
    IF useTx THEN rec.date_of_service ELSE Val(rec.date_of_service)

\* the date filters: a bound that is not given filters nothing
InDateRange(d, date_from, date_to) ==
    /\ IsNone(date_from) \/ d >= Val(date_from)
    /\ IsNone(date_to) \/ d <= Val(date_to)

\* parent_filters: one equality per ancestor dimension
MatchesFilters(useTx, rec, filters) ==
    \A k \in DOMAIN filters :
        DimValue(useTx, rec, filters[k].dim) = Some(filters[k].value)

\* the rows the grouped query of one level aggregates, as table positions
LevelRows(useTx, dim, filters, date_from, date_to) ==
    LET table == TableOf(useTx)
    IN  { i \in DOMAIN table :
            /\ ~IsNone(DimValue(useTx, table[i], dim))
            /\ InDateRange(DateValue(useTx, table[i]), date_from, date_to)
            /\ MatchesFilters(useTx, table[i], filters) }

\* GROUP BY column [, name_column]: the key of a row's group
GroupKey(useTx, rec, dim) ==
    [value |-> Val(DimValue(useTx, rec, dim)), name |-> NameValue(rec, dim)]

\* the group keys in the order of their first row
RECURSIVE KeysInOrder(_, _, _, _, _)
KeysInOrder(useTx, dim, rows, i, acc) ==
    LET table == TableOf(useTx)
    IN  IF i > Len(table) THEN acc
        ELSE IF i \notin rows THEN KeysInOrder(useTx, dim, rows, i + 1, acc)
        ELSE LET k == GroupKey(useTx, table[i], dim)
             IN  IF \E j \in DOMAIN acc : acc[j] = k
                 THEN KeysInOrder(useTx, dim, rows, i + 1, acc)
                 ELSE KeysInOrder(useTx, dim, rows, i + 1, Append(acc, k))

RECURSIVE SumOver(_, _, _)
\* model: the sum of field f over the records of `table` at the positions S
SumOver(table, S, f) ==
    IF S = {} THEN 0
    ELSE LET i == CHOOSE x \in S : TRUE
         IN  table[i][f] + SumOver(table, S \ {i}, f)

\* func.count(func.distinct(Transaction.procedure_id)) / func.count(model.id)
ProcedureCount(useTx, S) ==
    IF useTx THEN Cardinality({ transactions[i].procedure_id : i \in S })
    ELSE Cardinality(S)

\* round(func.avg(days_to_first_payment), 1) in tenths of a day; NULL when no
\* row has a value, and also when the average is 0 (`if row.avg_days`)
AvgDays(S) ==
    LET have == { i \in S : ~IsNone(summaries[i].days_to_first_payment) }
        days == [i \in DOMAIN summaries |->
                    [d |-> IF IsNone(summaries[i].days_to_first_payment) THEN 0
                           ELSE Val(summaries[i].days_to_first_payment)]]
        total == SumOver(days, have, "d")
    IN  IF have = {} \/ total = 0 THEN None
        ELSE Some(RoundDiv(total * 10, Cardinality(have)))

\* (payments / charges * 100) if charges > 0 else 0, rounded to 2 decimals
RatePercent(charges, payments) ==
    IF charges > 0 THEN RoundDiv(payments * 10000, charges) ELSE 0

\* child_key of the next dimension
ChildKey(dim) ==
    IF dim = "surgery_type" THEN "surgery_types"
    ELSE IF dim = "billing_subcategory" THEN "billing_subcategories"
    ELSE IF dim = "procedure_id" THEN "procedures"
    ELSE IF dim = "carrier" THEN "carriers"
    ELSE "patients"

\* the sort placing a node ahead of the nodes of equal total charges
RECURSIVE InsertNodeTiesFirst(_, _)
InsertNodeTiesFirst(sorted, node) ==
    IF sorted = <<>> THEN <<node>>
    ELSE IF Head(sorted).total_charges > node.total_charges
         THEN <<Head(sorted)>> \o InsertNodeTiesFirst(Tail(sorted), node)
         ELSE <<node>> \o sorted

\* results.sort(key=total_charges, reverse=True): stable, by insertion
RECURSIVE InsertNode(_, _)
InsertNode(sorted, node) ==
    IF sorted = <<>> THEN <<node>>
    ELSE IF Head(sorted).total_charges >= node.total_charges
         THEN <<Head(sorted)>> \o InsertNode(Tail(sorted), node)
         ELSE <<node>> \o sorted

RECURSIVE SortByCharges(_)
SortByCharges(nodes) ==
    IF nodes = <<>> THEN <<>>
    ELSE InsertNode(SortByCharges(SubSeq(nodes, 1, Len(nodes) - 1)), nodes[Len(nodes)])

\* the rows of one group of the level's query
GroupRowsOf(useTx, dim, rows, key) ==
    { i \in rows : GroupKey(useTx, TableOf(useTx)[i], dim) = key }

RECURSIVE BuildLevel(_, _, _, _, _)
\* build_level(parent_filters, dimensions); the keys type_name, first_visit
\* and last_visit of an item are not modelled
BuildLevel(useTx, filters, dimensions, date_from, date_to) ==
    IF dimensions = <<>> THEN <<>>
    ELSE
      LET current_dim == Head(dimensions)
          remaining_dims == Tail(dimensions)
          table == TableOf(useTx)
          rows == LevelRows(useTx, current_dim, filters, date_from, date_to)
          keys == KeysInOrder(useTx, current_dim, rows, 1, <<>>)
          charges_col == IF useTx THEN "charges" ELSE "total_charges"
          item(key) ==
            LET S == GroupRowsOf(useTx, current_dim, rows, key)
                charges == SumOver(table, S, charges_col)
                payments == SumOver(table, S, "total_payments")
                \* {**parent_filters, current_dim: row_value}
                new_filters ==
                    SelectSeq(filters, LAMBDA f : f.dim # current_dim)
                        \o <<[dim |-> current_dim, value |-> key.value]>>
            IN  [ dim |-> current_dim,
                  value |-> key.value,
                  procedure_count |-> ProcedureCount(useTx, S),
                  total_charges |-> charges,
                  total_payments |-> payments,
                  collection_rate |-> RatePercent(charges, payments),
                  avg_days_to_payment |-> IF useTx THEN None ELSE AvgDays(S),
                  child_key |-> IF remaining_dims # <<>>
                                THEN Some(ChildKey(Head(remaining_dims))) ELSE None,
                  children |-> IF remaining_dims # <<>>
                               THEN BuildLevel(useTx, new_filters, remaining_dims,
                                               date_from, date_to)
                               ELSE <<>> ]
      IN  SortByCharges([k \in DOMAIN keys |-> item(keys[k])])

\* the summary block: totals of the date-filtered table
SummaryBlock(useTx, date_from, date_to) ==
    LET table == TableOf(useTx)
        S == { i \in DOMAIN table :
                 InDateRange(DateValue(useTx, table[i]), date_from, date_to) }
        charges == SumOver(table, S, IF useTx THEN "charges" ELSE "total_charges")
        payments == SumOver(table, S, "total_payments")
    IN  [ total_procedures |-> ProcedureCount(useTx, S),
          total_charges |-> charges,
          total_payments |-> payments,
          collection_rate |-> RatePercent(charges, payments) ]

\* the validation loop: some requested name is no key of dimension_config
InvalidDimension(group_by) ==
    \E i \in DOMAIN group_by : group_by[i] \notin DimNames

\* the number of grouped queries build_level issued for a tree
RECURSIVE GroupedQueries(_)
GroupedQueries(nodes) ==
    IF nodes = <<>> THEN 0
    ELSE (IF IsNone(Head(nodes).child_key) THEN 0
          ELSE 1 + GroupedQueries(Head(nodes).children))
         + GroupedQueries(Tail(nodes))

NoSummary ==
    [ total_procedures |-> 0, total_charges |-> 0, total_payments |-> 0,
      collection_rate |-> 0 ]

\* the engine's result: raised (ValueError), or data and summary
DynamicMatrix(group_by, date_from, date_to) ==
    LET useTx == UseTransactionTable(group_by)
    IN  IF InvalidDimension(group_by)
        THEN [ raised |-> TRUE, data |-> <<>>, summary |-> NoSummary, queries |-> 0 ]
        ELSE LET data == BuildLevel(useTx, <<>>, group_by, date_from, date_to)
             IN  [ raised |-> FALSE, data |-> data,
                   summary |-> SummaryBlock(useTx, date_from, date_to),
                   queries |-> 1 + GroupedQueries(data) ]

-----------------------------------------------------------------------------
(* routers/analytics.py: GET /api/analytics/dynamic-matrix *)

\* the names a request may carry: the five dimensions and the name the
\* endpoint's description lists, billing_category
RequestNames == DimNames \cup {"billing_category"}

RequestDates == { <<None, None>>, <<Some(2), Some(2)>> }

\* the handler: group_by assembled from group1..group4, the engine called,
\* an exception of the engine left to the framework (500)
GetDynamicMatrix(group_by, date_from, date_to) ==
    LET result == DynamicMatrix(group_by, date_from, date_to)
    IN  /\ AfterImport
        /\ response' = [ NoResponse EXCEPT
                           !.op = "get_dynamic_matrix",
                           !.ok = ~result.raised,
                           !.status = IF result.raised THEN 500 ELSE 200,
                           !.detail = IF result.raised THEN "Internal Server Error" ELSE "",
                           !.group_by = group_by,
                           !.date_from = date_from,
                           !.date_to = date_to,
                           !.data = result.data,
                           !.summary = IF result.raised THEN None ELSE Some(result.summary),
                           !.queries = result.queries ]
        /\ UNCHANGED <<transactions, summaries, completed, uploads, sessions, files>>

ImportMatrix == \E df \in MatrixFrames(Room(MaxMatrixTx)) : ProcessUpload(df)

QueryMatrix ==
    \E group_by \in SeqsUpTo(RequestNames, MaxDims), dates \in RequestDates :
        GetDynamicMatrix(group_by, dates[1], dates[2])

NextMatrix == ImportMatrix \/ QueryMatrix

SpecMatrix == Init /\ [][NextMatrix]_vars

-----------------------------------------------------------------------------
(* PaymentRecoveryService (services/payment_recovery.py) *)

\* the ledger of the recovery specification, amounts in cents: P1 served on
\* day 0 with a charge, payments deposited at several distances and a
\* reversal; P2 served on day 20 with a charge and one payment
RecoveryRows ==
    LET p1 == [BaseRow("P1") EXCEPT !.date_of_service = 0, !.date_of_entry = Some(0)]
        p2 == [BaseRow("P2") EXCEPT !.date_of_service = 20, !.date_of_entry = Some(20)]
    IN  { [p1 EXCEPT !.charges = 100000] }
        \cup { [p1 EXCEPT !.total_payments = a, !.date_of_deposit = d] :
                 a \in {100000, 40000},
                 d \in {None, Some(10), Some(40), Some(200)} }
        \cup { [p1 EXCEPT !.total_payments = 0 - 40000, !.date_of_deposit = Some(10)] }
        \cup { [p2 EXCEPT !.charges = 100000],
               [p2 EXCEPT !.total_payments = 40000, !.date_of_deposit = Some(40)] }

RecoveryFrames(n) ==
    { [cols |-> OptionalCols, rows |-> rs] : rs \in SeqsUpTo(RecoveryRows, n) }

\* the windows of calculate_recovery_rates, in the order they are computed
WindowDays == <<30, 90, 180, 365>>

\* the procedures matching the filters; a filter that is None (or falsy) is
\* not applied
Cohort(date_from, date_to, patient_id) ==
    { i \in DOMAIN summaries :
        /\ IsNone(date_from) \/ (~IsNone(summaries[i].date_of_service)
                                 /\ Val(summaries[i].date_of_service) >= Val(date_from))
        /\ IsNone(date_to) \/ (~IsNone(summaries[i].date_of_service)
                               /\ Val(summaries[i].date_of_service) <= Val(date_to))
        /\ IsNone(patient_id) \/ Val(patient_id) = 0
             \/ summaries[i].chart_number = patient_id }

\* the window never cut at today
GetPaymentsBeyondToday(procedure_id, dos, days, today) ==
    LET hits == { i \in DOMAIN transactions :
                    /\ transactions[i].procedure_id = procedure_id
                    /\ ~IsNone(transactions[i].date_of_deposit)
                    /\ Val(transactions[i].date_of_deposit) <= dos + days
                    /\ transactions[i].total_payments > 0 }
    IN  SumOver(transactions, hits, "total_payments")

\* _get_payments_within_days: the window ends `days` after the date of
\* service and not after today; positive payments with a deposit date in it
GetPaymentsWithinDays(procedure_id, dos, days, today) ==
    LET window_end == IF dos + days > today THEN today ELSE dos + days
        hits == { i \in DOMAIN transactions :
                    /\ transactions[i].procedure_id = procedure_id
                    /\ ~IsNone(transactions[i].date_of_deposit)
                    /\ Val(transactions[i].date_of_deposit) <= window_end
                    /\ transactions[i].total_payments > 0 }
    IN  SumOver(transactions, hits, "total_payments")

RECURSIVE WindowPayments(_, _, _, _)
WindowPayments(procs, k, days, today) ==
    IF k > Len(summaries) THEN 0
    ELSE (IF k \in procs /\ ~IsNone(summaries[k].date_of_service)
          THEN GetPaymentsWithinDays(summaries[k].procedure_id,
                                     Val(summaries[k].date_of_service), days, today)
          ELSE 0)
         + WindowPayments(procs, k + 1, days, today)

\* _calc_payment_velocity without min(percent, 100.0)
CalcPaymentVelocityUncapped(procs, days, total_charges, today) ==
    LET payments_in_window == WindowPayments(procs, 1, days, today)
    IN  [ percent |-> IF total_charges > 0
                      THEN RoundDiv(payments_in_window * 10000, total_charges)
                      ELSE 0,
          amount |-> payments_in_window,
          procedures |-> Cardinality(procs) ]

\* _calc_payment_velocity: percent in hundredths, capped at 100.00
CalcPaymentVelocity(procs, days, total_charges, today) ==
    LET payments_in_window == WindowPayments(procs, 1, days, today)
        percent == IF total_charges > 0
                   THEN RoundDiv(payments_in_window * 10000, total_charges)
                   ELSE 0
    IN  [ percent |-> IF percent > 10000 THEN 10000 ELSE percent,
          amount |-> payments_in_window,
          procedures |-> Cardinality(procs) ]

\* the body calculate_recovery_rates returns; date.today() is read anew for
\* every window, and reads `today` up to window `rollover`, today + 1 after
RecoveryRates(date_from, date_to, patient_id, today, rollover) ==
    LET procs == Cohort(date_from, date_to, patient_id)
        total_charges == SumOver(summaries, procs, "total_charges")
        total_payments == SumOver(summaries, procs, "total_payments")
        clock(w) == IF w < rollover THEN today ELSE today + 1
        zero == [percent |-> 0, amount |-> 0, procedures |-> 0]
    IN  IF procs = {}
        THEN [ recovery |-> <<zero, zero, zero, zero>>,
               overall_collection_rate |-> 0,
               total_charges |-> 0, total_payments |-> 0 ]
        ELSE [ recovery |-> [w \in DOMAIN WindowDays |->
                               CalcPaymentVelocity(procs, WindowDays[w],
                                                   total_charges, clock(w))],
               overall_collection_rate |-> RatePercent(total_charges, total_payments),
               total_charges |-> total_charges,
               total_payments |-> total_payments ]

CalculateRecoveryRates(date_from, date_to, patient_id, today, rollover) ==
    /\ AfterImport
    /\ response' = [ NoResponse EXCEPT
                       !.op = "calculate_recovery_rates",
                       !.status = 200,
                       !.request = [ date_from |-> date_from, date_to |-> date_to,
                                     patient_id |-> patient_id,
                                     today |-> today, rollover |-> rollover ],
                       !.body = RecoveryRates(date_from, date_to, patient_id,
                                              today, rollover) ]
    /\ UNCHANGED <<transactions, summaries, completed, uploads, sessions, files>>

\* the days a request is served on
RecoveryTodays == {9, 50, 1000}

ImportRecovery == \E df \in RecoveryFrames(Room(MaxRecoveryTx)) : ProcessUpload(df)

QueryRecovery ==
    \E dates \in { <<None, None>>, <<Some(0), Some(10)>> },
       patient_id \in {None, Some(2)},
       today \in RecoveryTodays,
       rollover \in {3, Len(WindowDays) + 1} :
        CalculateRecoveryRates(dates[1], dates[2], patient_id, today, rollover)

NextRecovery == ImportRecovery \/ QueryRecovery

SpecRecovery == Init /\ [][NextRecovery]_vars

-----------------------------------------------------------------------------
(* routers/upload.py: POST /api/upload/ *)

\* the parameters process_upload declares after self, and the arguments the
\* handler passes to it
ProcessUploadParams == <<"df">>
UploadCallArgs == <<"df", "upload">>

\* Python raises TypeError for a call whose positional arguments do not fit
CallRaisesTypeError == Len(UploadCallArgs) # Len(ProcessUploadParams)

\* what parse_file makes of the sheet: an exception, or a row-set
Sheets ==
    { [parses |-> FALSE, df |-> [cols |-> {}, rows |-> <<>>]] }
    \cup { [parses |-> TRUE, df |-> f] : f \in LedgerFrames(1) }

\* an uploaded file: its extension, whether writing it to upload_dir
\* succeeded, and its sheet
UploadedFiles ==
    [ ext : {".xlsx", ".xls", ".csv"}, saved : BOOLEAN, sheet : Sheets ]

\* the record as created, the except branch writing nothing over it
UploadRecordStaysProcessing(file, failed, message) ==
    [ original_filename |-> file.ext,
      upload_status |-> "processing",
      error_message |-> None ]

\* Upload(..., upload_status="processing") with the outcome the except
\* branch writes over it
UploadRecord(file, failed, message) ==
    [ original_filename |-> file.ext,
      upload_status |-> IF failed THEN "failed" ELSE "processing",
      error_message |-> IF failed THEN Some(message) ELSE None ]

UploadResponse(file, status, detail, body) ==
    [ NoResponse EXCEPT !.op = "upload_file", !.ok = (status = 200),
                        !.status = status, !.detail = detail,
                        !.request = file, !.body = body ]

UploadFailed(file, message) ==
    /\ uploads' = Append(uploads, UploadRecord(file, TRUE, message))
    /\ response' = UploadResponse(file, 500, "Failed to process file: " \o message, <<>>)

\* open(file_path, "wb") and f.write(contents): the file as the directory
\* holds it afterwards
StoredFile(file, complete) == [ext |-> file.ext, complete |-> complete]

\* the handler without its check of the file type
InvalidFileTypeNever(file) == FALSE

\* not file.filename.endswith((".xlsx", ".xls"))
InvalidFileType(file) == file.ext \notin {".xlsx", ".xls"}

\* the handler, from the extension check to the response
UploadFile(file) ==
    IF InvalidFileType(file)
    THEN /\ response' = UploadResponse(file, 400, "Invalid file type", <<>>)
         /\ UNCHANGED <<transactions, summaries, completed, uploads, sessions, files>>
    ELSE IF ~file.saved
    THEN \* open() raised and no file exists, or write() raised after
         \* open() had created it
         /\ response' = UploadResponse(file, 500, "Failed to save file", <<>>)
         /\ files' \in {files, Append(files, StoredFile(file, FALSE))}
         /\ UNCHANGED <<transactions, summaries, completed, uploads, sessions>>
    ELSE IF ~file.sheet.parses
    THEN /\ UploadFailed(file, "Missing required columns")
         /\ files' = Append(files, StoredFile(file, TRUE))
         /\ UNCHANGED <<transactions, summaries, completed, sessions>>
    ELSE IF CallRaisesTypeError
    THEN /\ UploadFailed(file, "process_upload() takes 2 positional arguments but 3 were given")
         /\ files' = Append(files, StoredFile(file, TRUE))
         /\ UNCHANGED <<transactions, summaries, completed, sessions>>
    ELSE LET df == file.sheet.df
             built == BuildProcedureSummaries(summaries, df)
         IN  /\ transactions' = SaveTransactions(transactions, df)
             /\ summaries' = built.sums
             /\ files' = Append(files, StoredFile(file, TRUE))
             /\ UNCHANGED sessions
             /\ IF built.ok
                THEN /\ completed' = completed \cup GroupKeys(df)
                     /\ uploads' = Append(uploads, UploadRecord(file, FALSE, ""))
                     /\ response' = UploadResponse(file, 200, "",
                                      [ rows_imported |-> Len(df.rows),
                                        procedures_count |-> built.count,
                                        patients_count |-> PatientsCount(df),
                                        status |-> "completed" ])
                ELSE /\ completed' = completed
                     /\ UploadFailed(file, "KeyError")

PostUpload ==
    /\ Len(uploads) < MaxUploads
    /\ Len(files) < MaxFiles
    /\ \E file \in UploadedFiles : UploadFile(file)

NextUpload == PostUpload

SpecUpload == Init /\ [][NextUpload]_vars

-----------------------------------------------------------------------------
(* Imports in flight at the same time: process_upload run by several       *)
(* requests, each in its own session (database.get_db), against a database *)
(* whose statements see what is committed (READ COMMITTED).                *)

\* the ledger of the concurrent specification
RaceRows ==
    { [BaseRow("P1") EXCEPT !.date_of_entry = Some(1), !.charges = c] : c \in {100, 300} }
    \cup { [BaseRow("P1") EXCEPT !.date_of_entry = Some(1), !.total_payments = a,
                                 !.date_of_deposit = Some(3)] : a \in {50, 95} }
    \cup { [BaseRow("P2") EXCEPT !.date_of_entry = Some(1), !.charges = 100] }

RaceFrames ==
    { [cols |-> OptionalCols, rows |-> rs] : rs \in SeqsUpTo(RaceRows, MaxRaceRows) }

Finished(s) == s.pc \in {"returned", "raised"}

\* the request arrives: a session of its own, nothing read or written yet
BeginImport(df) ==
    /\ Len(sessions) < MaxSessions
    /\ sessions' = Append(sessions,
                     [ df |-> df, pc |-> "save", k |-> 1, pending |-> <<>>,
                       began_with |-> { j \in DOMAIN sessions : ~Finished(sessions[j]) },
                       seq |-> 0, error |-> "" ])
    /\ UNCHANGED <<transactions, summaries, response, completed, uploads, files>>

\* _save_transactions: the rows added and committed
SaveStep(i) ==
    /\ sessions[i].pc = "save"
    /\ transactions' = SaveTransactions(transactions, sessions[i].df)
    /\ sessions' = [sessions EXCEPT ![i].pc = "build"]
    /\ UNCHANGED <<summaries, response, completed, uploads, files>>

\* the position in ProcSeq of the next group of df at or after k, 0 if none
NextGroup(df, k) ==
    LET rest == { n \in k..Len(ProcSeq) : ProcSeq[n] \in GroupKeys(df) }
    IN  IF rest = {} THEN 0 ELSE SetMin(rest)

\* one pass of the loop of _build_procedure_summaries: the committed row
\* looked up, the group folded into it (or into a new object) within the
\* session; nothing is flushed before the commit (autoflush=False)
BuildStep(i) ==
    LET s == sessions[i]
        n == NextGroup(s.df, s.k)
        p == ProcSeq[n]
        existing == FindExisting(summaries, p)
        old == IF IsNone(existing) THEN NewSummary(p) ELSE summaries[Val(existing)]
        new == SummarizeGroup(old, GroupOf(s.df, p), s.df.cols)
        entry == [procedure_id |-> p, existing |-> existing, loaded |-> old, new |-> new]
    IN  /\ s.pc = "build"
        /\ sessions' =
             IF GroupRaises(s.df.cols)
             THEN [sessions EXCEPT ![i].pc = "raised", ![i].error = "KeyError"]
             ELSE IF n = 0 THEN [sessions EXCEPT ![i].pc = "commit"]
             ELSE [sessions EXCEPT ![i].pending = Append(@, entry), ![i].k = n + 1,
                                   ![i].pc = IF NextGroup(s.df, n + 1) = 0
                                             THEN "commit" ELSE "build"]
        /\ UNCHANGED <<transactions, summaries, response, completed, uploads, files>>

\* the UPDATE the unit of work emits for a loaded object: the columns whose
\* value differs from the one loaded, set on the row as it is now
ApplyUpdate(row, loaded, new) ==
    [f \in DOMAIN row |-> IF new[f] # loaded[f] THEN new[f] ELSE row[f]]

RECURSIVE FlushPending(_, _, _)
FlushPending(sums, pending, n) ==
    IF n > Len(pending) THEN sums
    ELSE LET e == pending[n]
         IN  IF IsNone(e.existing)
             THEN FlushPending(Append(sums, StatusDefault(e.new)), pending, n + 1)
             ELSE FlushPending([sums EXCEPT ![Val(e.existing)] =
                                   ApplyUpdate(@, e.loaded, e.new)], pending, n + 1)

NextSeq == 1 + Cardinality({ j \in DOMAIN sessions : sessions[j].seq > 0 })

\* self.db.commit() at the end of _build_procedure_summaries: the pending
\* INSERTs and UPDATEs in one transaction; an INSERT of an identifier that
\* is committed by now violates the unique index and the commit raises
CommitStep(i) ==
    LET s == sessions[i]
        flushed == FlushPending(summaries, s.pending, 1)
        ok == UniqueProcedureIds(flushed)
        inserted == Cardinality({ n \in DOMAIN s.pending : IsNone(s.pending[n].existing) })
    IN  /\ s.pc = "commit"
        /\ summaries' = IF ok THEN flushed ELSE summaries
        /\ sessions' = IF ok
                       THEN [sessions EXCEPT ![i].pc = "returned", ![i].seq = NextSeq]
                       ELSE [sessions EXCEPT ![i].pc = "raised",
                                             ![i].error = "IntegrityError"]
        /\ completed' = IF ok THEN completed \cup GroupKeys(s.df) ELSE completed
        /\ response' = [ NoResponse EXCEPT
                           !.op = "process_upload", !.ok = ok,
                           !.ids = GroupKeys(s.df), !.df = s.df,
                           !.transactions_imported = IF ok THEN Len(s.df.rows) ELSE 0,
                           !.procedures_created = IF ok THEN inserted ELSE 0,
                           !.patients_count = IF ok THEN PatientsCount(s.df) ELSE 0 ]
        /\ UNCHANGED <<transactions, uploads, files>>

Begin == \E df \in RaceFrames : BeginImport(df)

Save == \E i \in DOMAIN sessions : SaveStep(i)

Build == \E i \in DOMAIN sessions : BuildStep(i)

Commit == \E i \in DOMAIN sessions : CommitStep(i)

NextRace == Begin \/ Save \/ Build \/ Commit

SpecRace == Init /\ [][NextRace]_vars

-----------------------------------------------------------------------------
(* AnomalyDetectorService (services/anomaly_detector.py) *)

\* the ledger of the anomaly specification, amounts in cents: P1 served on
\* day 0, P2 on day 100
AnomalyRows ==
    LET p1 == [BaseRow("P1") EXCEPT !.date_of_service = 0, !.date_of_entry = Some(0)]
        p2 == [BaseRow("P2") EXCEPT !.date_of_service = 100, !.date_of_entry = Some(100)]
    IN  { [p1 EXCEPT !.charges = 50000],
          [p1 EXCEPT !.total_payments = 60000, !.date_of_deposit = Some(10)],
          [p1 EXCEPT !.total_payments = 20000, !.date_of_deposit = Some(10)],
          [p2 EXCEPT !.charges = 30000],
          [p2 EXCEPT !.total_payments = 30000, !.date_of_deposit = Some(110)],
          [p2 EXCEPT !.total_payments = 0 - 30000, !.date_of_deposit = Some(120)] }

AnomalyFrames(n) ==
    { [cols |-> OptionalCols, rows |-> rs] : rs \in SeqsUpTo(AnomalyRows, n) }

\* date_of_service >= date_from / <= date_to, each applied when given
ServiceDateInRange(s, date_from, date_to) ==
    /\ IsNone(date_from) \/ (~IsNone(s.date_of_service)
                             /\ Val(s.date_of_service) >= Val(date_from))
    /\ IsNone(date_to) \/ (~IsNone(s.date_of_service)
                           /\ Val(s.date_of_service) <= Val(date_to))

\* list.sort(key=..., reverse=True): descending, equal keys in their order
RECURSIVE InsertDesc(_, _, _)
InsertDesc(sorted, item, f) ==
    IF sorted = <<>> THEN <<item>>
    ELSE IF item[f] > Head(sorted)[f] THEN <<item>> \o sorted
    ELSE <<Head(sorted)>> \o InsertDesc(Tail(sorted), item, f)

RECURSIVE SortDesc(_, _)
SortDesc(items, f) ==
    IF items = <<>> THEN <<>>
    ELSE InsertDesc(SortDesc(SubSeq(items, 1, Len(items) - 1), f), items[Len(items)], f)

\* the filter without 'total_charges > 0'
ExceedsChargesAnyCharge(s) ==
    s.total_payments > s.total_charges

\* total_payments > total_charges, total_charges > 0
ExceedsCharges(s) ==
    /\ s.total_payments > s.total_charges
    /\ s.total_charges > 0

\* detect_payments_exceed_charges: the body it returns
PaymentsExceedCharges(date_from, date_to) ==
    LET anomalies == SelectSeq(summaries,
                        LAMBDA s : ExceedsCharges(s)
                                   /\ ServiceDateInRange(s, date_from, date_to))
        entry(s) ==
            LET overpayment == s.total_payments - s.total_charges
            IN  [ procedure_id |-> s.procedure_id,
                  date_of_service |-> s.date_of_service,
                  total_charges |-> s.total_charges,
                  total_payments |-> s.total_payments,
                  overpayment |-> overpayment,
                  overpayment_percent |->
                      IF s.total_charges # 0
                      THEN RoundDiv(overpayment * 10000, s.total_charges) ELSE 0 ]
        procedures == [k \in DOMAIN anomalies |-> entry(anomalies[k])]
    IN  [ anomaly_type |-> "payment_exceeds_charge",
          count |-> Len(procedures),
          total |-> SumInts(Col(procedures, "overpayment")),
          procedures |-> SortDesc(procedures, "overpayment") ]

\* total_charges > 0 and total_payments 0 (or NULL), old enough on the day
\* the query is built
MissingPayment(s, old_enough_date) ==
    /\ ~IsNone(s.date_of_service) /\ Val(s.date_of_service) <= old_enough_date
    /\ s.total_charges > 0
    /\ s.total_payments = 0

\* detect_missing_payments: date.today() is read when the query is built
\* (cutoff_date) and again for each listed procedure (today_listed)
MissingPayments(date_from, date_to, days_threshold, cutoff_date, today_listed) ==
    LET old_enough_date == cutoff_date - days_threshold
        anomalies == SelectSeq(summaries,
                        LAMBDA s : MissingPayment(s, old_enough_date)
                                   /\ ServiceDateInRange(s, date_from, date_to))
        entry(s) ==
            [ procedure_id |-> s.procedure_id,
              date_of_service |-> s.date_of_service,
              total_charges |-> s.total_charges,
              total_payments |-> 0,
              days_since_dos |-> IF ~IsNone(s.date_of_service)
                                 THEN today_listed - Val(s.date_of_service) ELSE 0 ]
        procedures == [k \in DOMAIN anomalies |-> entry(anomalies[k])]
    IN  [ anomaly_type |-> "missing_payments",
          count |-> Len(procedures),
          total |-> SumInts(Col(procedures, "total_charges")),
          procedures |-> SortDesc(procedures, "total_charges") ]

DetectPaymentsExceedCharges(date_from, date_to) ==
    /\ AfterImport
    /\ response' = [ NoResponse EXCEPT
                       !.op = "detect_payments_exceed_charges", !.status = 200,
                       !.request = [date_from |-> date_from, date_to |-> date_to],
                       !.body = PaymentsExceedCharges(date_from, date_to) ]
    /\ UNCHANGED <<transactions, summaries, completed, uploads, sessions, files>>

DetectMissingPayments(date_from, date_to, days_threshold, today, rollover) ==
    /\ AfterImport
    /\ response' = [ NoResponse EXCEPT
                       !.op = "detect_missing_payments", !.status = 200,
                       !.request = [ date_from |-> date_from, date_to |-> date_to,
                                     days_threshold |-> days_threshold,
                                     today |-> today, rollover |-> rollover ],
                       !.body = MissingPayments(date_from, date_to, days_threshold, today,
                                                IF rollover THEN today + 1 ELSE today) ]
    /\ UNCHANGED <<transactions, summaries, completed, uploads, sessions, files>>

AnomalyDates == { <<None, None>>, <<Some(0), Some(50)>>, <<Some(100), None>> }

AnomalyTodays == {279, 300}

Thresholds == {180, 0}

ImportAnomaly == \E df \in AnomalyFrames(Room(MaxAnomalyTx)) : ProcessUpload(df)

QueryPaymentsExceed ==
    \E dates \in AnomalyDates : DetectPaymentsExceedCharges(dates[1], dates[2])

QueryMissingPayments ==
    \E dates \in AnomalyDates, days_threshold \in Thresholds,
       today \in AnomalyTodays, rollover \in BOOLEAN :
        DetectMissingPayments(dates[1], dates[2], days_threshold, today, rollover)

NextAnomaly == ImportAnomaly \/ QueryPaymentsExceed \/ QueryMissingPayments

SpecAnomaly == Init /\ [][NextAnomaly]_vars

-----------------------------------------------------------------------------
(* routers/patients.py and routers/procedures.py: the look-ups by          *)
(* identifier                                                               *)

\* the ledger of the look-up specification: P1 of patient 1, P2 of patient
\* 2, and a line of P2 without a chart number
LookupRows(cols) ==
    LET p1 == [BaseRow("P1") EXCEPT !.date_of_entry = Some(1)]
        p2 == [BaseRow("P2") EXCEPT !.date_of_entry = Some(2)]
        amount == IF "charges" \in cols THEN 100 ELSE 0
    IN  { [p1 EXCEPT !.charges = amount],
          [p1 EXCEPT !.total_payments = 50, !.date_of_deposit = Some(3),
                     !.date_of_entry = Some(3)],
          [p2 EXCEPT !.charges = amount],
          [p2 EXCEPT !.charges = amount, !.chart_number = None] }

LookupFrames(n) ==
    UNION { { [cols |-> cs, rows |-> rs] : rs \in SeqsUpTo(LookupRows(cs), n) }
          : cs \in { OptionalCols, OptionalCols \ {"charges"} } }

\* the identifiers a request may carry: stored ones and one never imported
RequestCharts == {1, 2, 3}
RequestProcIds == ProcIds \cup {"P3"}

\* 'if not rows' never taken
NotFoundNever(rows) == FALSE

\* 'if not rows: raise HTTPException(status_code=404, ...)'
NotFound(rows) == rows = <<>>

\* order_by(column) ascending, equal keys in table order
RECURSIVE InsertAsc(_, _, _)
InsertAsc(sorted, item, f) ==
    IF sorted = <<>> THEN <<item>>
    ELSE IF item[f] < Head(sorted)[f] THEN <<item>> \o sorted
    ELSE <<Head(sorted)>> \o InsertAsc(Tail(sorted), item, f)

RECURSIVE SortAsc(_, _)
SortAsc(items, f) ==
    IF items = <<>> THEN <<>>
    ELSE InsertAsc(SortAsc(SubSeq(items, 1, Len(items) - 1), f), items[Len(items)], f)

LookupResponse(op, id, rows, body) ==
    [ NoResponse EXCEPT
        !.op = op,
        !.ok = ~NotFound(rows),
        !.status = IF NotFound(rows) THEN 404 ELSE 200,
        !.detail = IF NotFound(rows) THEN "not found" ELSE "",
        !.request = [id |-> id],
        !.body = IF NotFound(rows) THEN <<>> ELSE body ]

SummariesOfPatient(chart_number) ==
    SelectSeq(summaries, LAMBDA s : s.chart_number = Some(chart_number))

TransactionsOfPatient(chart_number) ==
    SelectSeq(transactions, LAMBDA t : t.chart_number = Some(chart_number))

TransactionsOfProcedure(procedure_id) ==
    SelectSeq(transactions, LAMBDA t : t.procedure_id = procedure_id)

\* the key of order_by(Transaction.date_of_entry)
EntryKeyed(rows) ==
    [k \in DOMAIN rows |->
        [ procedure_id |-> rows[k].procedure_id,
          date_of_entry |-> Val(rows[k].date_of_entry),
          charges |-> rows[k].charges,
          total_payments |-> rows[k].total_payments ]]

\* GET /api/patients/{chart_number}
GetPatient(chart_number) ==
    LET procedures == SummariesOfPatient(chart_number)
        total_charges == SumInts(Col(procedures, "total_charges"))
        total_payments == SumInts(Col(procedures, "total_payments"))
    IN  /\ AfterImport
        /\ response' = LookupResponse("get_patient", chart_number, procedures,
                          [ chart_number |-> chart_number,
                            procedure_count |-> Len(procedures),
                            total_charges |-> total_charges,
                            total_payments |-> total_payments,
                            collection_rate |-> RatePercent(total_charges, total_payments) ])
        /\ UNCHANGED <<transactions, summaries, completed, uploads, sessions, files>>

\* GET /api/patients/{chart_number}/procedures
GetPatientProcedures(chart_number) ==
    LET procedures == SummariesOfPatient(chart_number)
        listed == [k \in DOMAIN procedures |->
                     [ procedure_id |-> procedures[k].procedure_id,
                       date_of_service |-> Val(procedures[k].date_of_service),
                       total_charges |-> procedures[k].total_charges,
                       total_payments |-> procedures[k].total_payments ]]
    IN  /\ AfterImport
        /\ response' = LookupResponse("get_patient_procedures", chart_number, procedures,
                                      SortDesc(listed, "date_of_service"))
        /\ UNCHANGED <<transactions, summaries, completed, uploads, sessions, files>>

\* GET /api/patients/{chart_number}/timeline
GetPatientTimeline(chart_number) ==
    LET rows == TransactionsOfPatient(chart_number)
    IN  /\ AfterImport
        /\ response' = LookupResponse("get_patient_timeline", chart_number, rows,
                                      SortAsc(EntryKeyed(rows), "date_of_entry"))
        /\ UNCHANGED <<transactions, summaries, completed, uploads, sessions, files>>

\* GET /api/procedures/{procedure_id}
GetProcedure(procedure_id) ==
    LET existing == FindExisting(summaries, procedure_id)
        found == IF IsNone(existing) THEN <<>> ELSE <<summaries[Val(existing)]>>
        rows == TransactionsOfProcedure(procedure_id)
    IN  /\ AfterImport
        /\ response' = LookupResponse("get_procedure", procedure_id, found,
                          [ procedure |-> found,
                            transactions |-> SortAsc(EntryKeyed(rows), "date_of_entry") ])
        /\ UNCHANGED <<transactions, summaries, completed, uploads, sessions, files>>

RECURSIVE Cumulative(_, _, _)
Cumulative(rows, charges, payments) ==
    IF rows = <<>> THEN <<>>
    ELSE LET t == Head(rows)
         IN  <<[ procedure_id |-> t.procedure_id,
                 date |-> t.date_of_entry,
                 charges |-> t.charges, payments |-> t.total_payments,
                 cumulative_charges |-> charges + t.charges,
                 cumulative_payments |-> payments + t.total_payments ]>>
             \o Cumulative(Tail(rows), charges + t.charges, payments + t.total_payments)

\* GET /api/procedures/{procedure_id}/timeline
GetProcedureTimeline(procedure_id) ==
    LET rows == TransactionsOfProcedure(procedure_id)
    IN  /\ AfterImport
        /\ response' = LookupResponse("get_procedure_timeline", procedure_id, rows,
                          Cumulative(SortAsc(EntryKeyed(rows), "date_of_entry"), 0, 0))
        /\ UNCHANGED <<transactions, summaries, completed, uploads, sessions, files>>

ImportLookup == \E df \in LookupFrames(Room(MaxLookupTx)) : ProcessUpload(df)

LookupPatient ==
    \E chart_number \in RequestCharts :
        \/ GetPatient(chart_number)
        \/ GetPatientProcedures(chart_number)
        \/ GetPatientTimeline(chart_number)

LookupProcedure ==
    \E procedure_id \in RequestProcIds :
        \/ GetProcedure(procedure_id)
        \/ GetProcedureTimeline(procedure_id)

NextLookup == ImportLookup \/ LookupPatient \/ LookupProcedure

SpecLookup == Init /\ [][NextLookup]_vars

-----------------------------------------------------------------------------
(* AnalyticsEngine: the three fixed matrices *)

\* rows of the fixed-matrix specification: charge lines of two amounts, so
\* that sibling groups tie and differ in total charges
OrderRows ==
    { [ BaseRow(p) EXCEPT
          !.date_of_entry = Some(1), !.charges = c,
          !.type_code = Some(ts[1]), !.surgery_type = Some(ts[2]),
          !.visit_primary_carrier = Some(k), !.billing_subcategory = Some(b) ] :
        p \in ProcIds, c \in {100, 300},
        ts \in {<<"T1", "X">>, <<"T2", "Y">>},
        k \in {"C1", "C2"}, b \in {"B1", "B2"} }

OrderFrames(n) ==
    { [cols |-> OptionalCols, rows |-> rs] : rs \in SeqsUpTo(OrderRows, n) }

\* GROUP BY col over the rows S of a table: the non-NULL values of the
\* column in the order of their first row
RECURSIVE ColumnKeys(_, _, _, _, _)
ColumnKeys(table, col, S, i, acc) ==
    IF i > Len(table) THEN acc
    ELSE IF i \notin S \/ IsNone(table[i][col])
         THEN ColumnKeys(table, col, S, i + 1, acc)
    ELSE IF \E j \in DOMAIN acc : acc[j] = Val(table[i][col])
         THEN ColumnKeys(table, col, S, i + 1, acc)
    ELSE ColumnKeys(table, col, S, i + 1, Append(acc, Val(table[i][col])))

\* the date filters on ProcedureSummary.date_of_service
SummariesInRange(date_from, date_to) ==
    { i \in DOMAIN summaries :
        ServiceDateInRange(summaries[i], date_from, date_to) }

\* one item of a level computed from procedure_summary rows; the keys
\* surgery_type (the name), first_visit and last_visit are not modelled
SummaryItem(col, v, S, children) ==
    LET charges == SumOver(summaries, S, "total_charges")
        payments == SumOver(summaries, S, "total_payments")
    IN  [ dim |-> col, value |-> v,
          procedure_count |-> Cardinality(S),
          total_charges |-> charges,
          total_payments |-> payments,
          collection_rate |-> RatePercent(charges, payments),
          avg_days_to_payment |-> AvgDays(S),
          children |-> children ]

\* the nested grouped queries of get_patient_surgery_insurance_matrix and
\* get_insurance_surgery_patient_matrix: one level per column, each level's
\* list sorted before it is attached to its parent
RECURSIVE SummaryLevels(_, _)
SummaryLevels(S, cols) ==
    IF cols = <<>> THEN <<>>
    ELSE LET col == Head(cols)
             keys == ColumnKeys(summaries, col, S, 1, <<>>)
             item(v) ==
                LET G == { i \in S : summaries[i][col] = Some(v) }
                IN  SummaryItem(col, v, G, SummaryLevels(G, Tail(cols)))
         IN  SortDesc([k \in DOMAIN keys |-> item(keys[k])], "total_charges")

PatientSurgeryInsuranceMatrix(date_from, date_to) ==
    SummaryLevels(SummariesInRange(date_from, date_to),
                  <<"chart_number", "type_code", "primary_carrier">>)

InsuranceSurgeryPatientMatrix(date_from, date_to) ==
    SummaryLevels(SummariesInRange(date_from, date_to),
                  <<"primary_carrier", "type_code", "chart_number">>)

\* set(tc for tc, _ in surgery_types if tc)
UniqueTypeCodes ==
    { Val(summaries[i].type_code) :
        i \in { j \in DOMAIN summaries : ~IsNone(summaries[j].type_code) } }

\* the orders a loop over a set of strings can take
IterationOrders(S) ==
    { f \in [1..Cardinality(S) -> S] :
        \A i, j \in 1..Cardinality(S) : f[i] = f[j] => i = j }

\* the billing breakdown of one carrier of one surgery type, read from the
\* transactions table
BillingCategories(type_code, carrier, date_from, date_to) ==
    LET S == { i \in DOMAIN transactions :
                 /\ transactions[i].type_code = Some(type_code)
                 /\ transactions[i].visit_primary_carrier = Some(carrier)
                 /\ ~IsNone(transactions[i].billing_subcategory)
                 /\ InDateRange(transactions[i].date_of_service, date_from, date_to) }
        keys == ColumnKeys(transactions, "billing_subcategory", S, 1, <<>>)
        item(b) ==
            LET G == { i \in S : transactions[i].billing_subcategory = Some(b) }
                charges == SumOver(transactions, G, "charges")
                payments == SumOver(transactions, G, "total_payments")
            IN  [ dim |-> "billing_subcategory", value |-> b,
                  charges |-> charges, payments |-> payments,
                  collection_rate |-> RatePercent(charges, payments),
                  children |-> <<>> ]
    IN  SortDesc([k \in DOMAIN keys |-> item(keys[k])], "charges")

\* get_surgery_insurance_matrix, its loop over unique_type_codes running in
\* the given order
SurgeryInsuranceMatrix(date_from, date_to, order) ==
    LET inRange == SummariesInRange(date_from, date_to)
        typeItem(tc) ==
            LET T == { i \in inRange : summaries[i].type_code = Some(tc) }
                ckeys == ColumnKeys(summaries, "primary_carrier", T, 1, <<>>)
                carrierItem(c) ==
                    LET G == { i \in T : summaries[i].primary_carrier = Some(c) }
                    IN  SummaryItem("primary_carrier", c, G,
                                    BillingCategories(tc, c, date_from, date_to))
            IN  SummaryItem("type_code", tc, T,
                    SortDesc([k \in DOMAIN ckeys |-> carrierItem(ckeys[k])],
                             "total_charges"))
    IN  SortDesc([k \in DOMAIN order |-> typeItem(order[k])], "total_charges")

-----------------------------------------------------------------------------
(* routers/analytics.py: the fixed-matrix endpoints *)

FixedMatrixResponse(op, date_from, date_to, order, data) ==
    [ NoResponse EXCEPT
        !.op = op, !.status = 200,
        !.date_from = date_from, !.date_to = date_to,
        !.request = order, !.data = data ]

GetSurgeryInsuranceMatrix(date_from, date_to, order) ==
    /\ AfterImport
    /\ response' = FixedMatrixResponse("get_surgery_insurance_matrix",
                       date_from, date_to, order,
                       SurgeryInsuranceMatrix(date_from, date_to, order))
    /\ UNCHANGED <<transactions, summaries, completed, uploads, sessions, files>>

GetPatientSurgeryInsuranceMatrix(date_from, date_to) ==
    /\ AfterImport
    /\ response' = FixedMatrixResponse("get_patient_surgery_insurance_matrix",
                       date_from, date_to, <<>>,
                       PatientSurgeryInsuranceMatrix(date_from, date_to))
    /\ UNCHANGED <<transactions, summaries, completed, uploads, sessions, files>>

GetInsuranceSurgeryPatientMatrix(date_from, date_to) ==
    /\ AfterImport
    /\ response' = FixedMatrixResponse("get_insurance_surgery_patient_matrix",
                       date_from, date_to, <<>>,
                       InsuranceSurgeryPatientMatrix(date_from, date_to))
    /\ UNCHANGED <<transactions, summaries, completed, uploads, sessions, files>>

ImportOrder == \E df \in OrderFrames(Room(MaxOrderTx)) : ProcessUpload(df)

QueryFixedMatrix ==
    \E dates \in RequestDates :
        \/ \E order \in IterationOrders(UniqueTypeCodes) :
               GetSurgeryInsuranceMatrix(dates[1], dates[2], order)
        \/ GetPatientSurgeryInsuranceMatrix(dates[1], dates[2])
        \/ GetInsuranceSurgeryPatientMatrix(dates[1], dates[2])

NextOrder == ImportOrder \/ QueryFixedMatrix \/ QueryMatrix

SpecOrder == Init /\ [][NextOrder]_vars
-----------------------------------------------------------------------------
(* AnalyticsEngine.get_days_to_payment_distribution and get_aging_report,  *)
(* applied to the tables as one import of one line per procedure leaves    *)
(* them                                                                    *)

DistProcSeq == <<"P1", "P2", "P3", "P4", "P5", "P6">>

\* one line per procedure: a charge of 1000.00 on the date of service (day
\* 0 or day 100) with no payment, or with a payment deposited 5 days
\* before, 10, 20, 30 or 200 days after the date of service
DistRows(p) ==
    LET line(s, a, d) ==
            [ BaseRow(p) EXCEPT !.date_of_service = s, !.date_of_entry = Some(s),
                                !.charges = 100000, !.total_payments = a,
                                !.date_of_deposit = d ]
    IN  { line(s, 0, None) : s \in {0, 100} }
        \cup { line(s, 40000, Some(s + 10)) : s \in {0, 100} }
        \cup { line(0, 40000, Some(0 - 5)), line(0, 40000, Some(20)),
               line(0, 40000, Some(30)), line(0, 100000, Some(200)) }

\* the rows of one line for each of the first k procedures
RECURSIVE DistLines(_)
DistLines(k) ==
    IF k = 0 THEN { <<>> }
    ELSE { Append(rs, r) : rs \in DistLines(k - 1), r \in DistRows(DistProcSeq[k]) }

\* the row-sets of one line for each of the first k procedures, k <= n
DistFrames(n) ==
    UNION { { [cols |-> OptionalCols, rows |-> rs] : rs \in DistLines(k) }
          : k \in 1..n }

\* the procedure_summary table after process_upload(df) on empty tables
ImportedSummaries(df) ==
    [ i \in DOMAIN df.rows |->
        StatusDefault(SummarizeGroup(NewSummary(df.rows[i].procedure_id),
                                     <<df.rows[i]>>, df.cols)) ]

InitDistribution ==
    \E df \in DistFrames(MaxDistProcs) :
        /\ transactions = SaveTransactions(<<>>, df)
        /\ summaries = ImportedSummaries(df)
        /\ response = [ NoResponse EXCEPT
                          !.op = "process_upload", !.ids = GroupKeys(df), !.df = df,
                          !.transactions_imported = Len(df.rows),
                          !.procedures_created = Len(df.rows),
                          !.patients_count = PatientsCount(df) ]
        /\ completed = GroupKeys(df)
        /\ uploads = <<>>
        /\ sessions = <<>>
        /\ files = <<>>

\* _apply_filters: a filter that is None (or falsy) is not applied
ApplyFilters(s, date_from, date_to, patient_id, type_code, carrier) ==
    /\ ServiceDateInRange(s, date_from, date_to)
    /\ IsNone(patient_id) \/ Val(patient_id) = 0 \/ s.chart_number = patient_id
    /\ IsNone(type_code) \/ s.type_code = type_code
    /\ IsNone(carrier) \/ s.primary_carrier = carrier

\* list.sort() of a list of integers
RECURSIVE InsertDay(_, _)
InsertDay(sorted, d) ==
    IF sorted = <<>> THEN <<d>>
    ELSE IF d < Head(sorted) THEN <<d>> \o sorted
    ELSE <<Head(sorted)>> \o InsertDay(Tail(sorted), d)

RECURSIVE SortDays(_)
SortDays(days) ==
    IF days = <<>> THEN <<>>
    ELSE InsertDay(SortDays(Tail(days)), Head(days))

\* the buckets of the distribution: (min_days, max_days)
DistributionBuckets ==
    << <<0, 30>>, <<31, 60>>, <<61, 90>>, <<91, 120>>, <<121, 180>>,
       <<181, 365>>, <<366, 99999>> >>

\* the mean of the two middle elements for a list of even length
MedianDaysAveraging(days_list) ==
    IF Len(days_list) % 2 = 1 THEN days_list[(Len(days_list) \div 2) + 1]
    ELSE (days_list[Len(days_list) \div 2]
            + days_list[(Len(days_list) \div 2) + 1]) \div 2

\* days_list[len(days_list) // 2] of the sorted list (0-based index)
MedianDays(days_list) == days_list[(Len(days_list) \div 2) + 1]

\* sum(1 for d in days_list if min_days <= d <= max_days)
CountBetween(days_list, min_days, max_days) ==
    Cardinality({ i \in DOMAIN days_list :
                    min_days <= days_list[i] /\ days_list[i] <= max_days })

\* the body get_days_to_payment_distribution returns; avg_days and percent
\* in tenths
DaysToPaymentDistribution(date_from, date_to, patient_id, type_code, carrier) ==
    LET procedures ==
            SelectSeq(summaries,
                LAMBDA s : /\ ~IsNone(s.days_to_first_payment)
                           /\ ApplyFilters(s, date_from, date_to, patient_id,
                                           type_code, carrier))
        days_list == SortDays([i \in DOMAIN procedures |->
                                  Val(procedures[i].days_to_first_payment)])
        total == Len(days_list)
    IN  IF procedures = <<>>
        THEN [ avg_days |-> None, median_days |-> None,
               min_days |-> None, max_days |-> None, distribution |-> <<>> ]
        ELSE [ avg_days |-> Some(RoundDiv(SumInts(days_list) * 10, total)),
               median_days |-> Some(MedianDays(days_list)),
               min_days |-> Some(days_list[1]),
               max_days |-> Some(days_list[total]),
               distribution |->
                 [ b \in DOMAIN DistributionBuckets |->
                     LET count == CountBetween(days_list, DistributionBuckets[b][1],
                                               DistributionBuckets[b][2])
                     IN  [ range |-> DistributionBuckets[b], count |-> count,
                           percent |-> IF total > 0
                                       THEN RoundDiv(count * 1000, total) ELSE 0 ] ] ]

\* buckets sharing their boundary days
AgingBucketsOverlapping ==
    << <<0, 30>>, <<30, 60>>, <<60, 90>>, <<90, 120>>, <<120, 99999>> >>

\* the buckets of the aging report
AgingBuckets ==
    << <<0, 30>>, <<31, 60>>, <<61, 90>>, <<91, 120>>, <<121, 99999>> >>

\* the list get_aging_report returns; total_outstanding in cents, percent
\* in tenths
AgingReport(type_code, carrier, today) ==
    LET procedures ==
            { i \in DOMAIN summaries :
                /\ summaries[i].status \in {Some("pending"), Some("partial")}
                /\ IsNone(type_code) \/ summaries[i].type_code = type_code
                /\ IsNone(carrier) \/ summaries[i].primary_carrier = carrier }
        bucket_procs(b) ==
            { i \in procedures :
                /\ ~IsNone(summaries[i].date_of_service)
                /\ AgingBuckets[b][1] <= today - Val(summaries[i].date_of_service)
                /\ today - Val(summaries[i].date_of_service) <= AgingBuckets[b][2] }
        outstanding(b) ==
            SumOver(summaries, bucket_procs(b), "total_charges")
                - SumOver(summaries, bucket_procs(b), "total_payments")
        total_outstanding ==
            SumInts([b \in DOMAIN AgingBuckets |-> outstanding(b)])
    IN  [ b \in DOMAIN AgingBuckets |->
            [ age_bucket |-> AgingBuckets[b],
              procedure_count |-> Cardinality(bucket_procs(b)),
              total_outstanding |-> outstanding(b),
              percent |-> IF total_outstanding > 0
                          THEN RoundDiv(outstanding(b) * 1000, total_outstanding)
                          ELSE 0 ] ]

-----------------------------------------------------------------------------
(* routers/analytics.py: GET /days-to-payment and GET /aging *)

GetDaysToPayment(date_from, date_to, patient_id, type_code, carrier) ==
    /\ AfterImport
    /\ response' = [ NoResponse EXCEPT
                       !.op = "get_days_to_payment_distribution",
                       !.status = 200,
                       !.request = [ date_from |-> date_from, date_to |-> date_to,
                                     patient_id |-> patient_id,
                                     type_code |-> type_code, carrier |-> carrier ],
                       !.body = DaysToPaymentDistribution(date_from, date_to,
                                    patient_id, type_code, carrier) ]
    /\ UNCHANGED <<transactions, summaries, completed, uploads, sessions, files>>

GetAgingReport(type_code, carrier, today) ==
    /\ AfterImport
    /\ response' = [ NoResponse EXCEPT
                       !.op = "get_aging_report",
                       !.status = 200,
                       !.request = [ type_code |-> type_code, carrier |-> carrier,
                                     today |-> today ],
                       !.data = AgingReport(type_code, carrier, today) ]
    /\ UNCHANGED <<transactions, summaries, completed, uploads, sessions, files>>

\* the days an aging report is asked for on
AgingTodays == {50, 130, 400}

QueryDaysToPayment ==
    \E dates \in { <<None, None>>, <<Some(0), Some(10)>> },
       patient_id \in {None, Some(2)},
       carrier \in {None, Some("C2")} :
        GetDaysToPayment(dates[1], dates[2], patient_id, None, carrier)

QueryAging ==
    \E type_code \in {None, Some("T1")}, today \in AgingTodays :
        GetAgingReport(type_code, None, today)

NextDistribution == QueryDaysToPayment \/ QueryAging

SpecDistribution == InitDistribution /\ [][NextDistribution]_vars
-----------------------------------------------------------------------------
(* Imports and every kind of query side by side *)

NextQueries ==
    \/ ImportLookup
    \/ QueryMatrix
    \/ QueryRecovery
    \/ QueryPaymentsExceed
    \/ QueryMissingPayments
    \/ LookupPatient
    \/ LookupProcedure

SpecQueries == Init /\ [][NextQueries]_vars

-----------------------------------------------------------------------------
(* Properties of the import path, checked under Spec *)

SummaryIds == { summaries[i].procedure_id : i \in DOMAIN summaries }

LastImportReturned == response.op = "process_upload" /\ response.ok

\* an import that returned and updated at least one summary in place
ReimportReturned ==
    LastImportReturned /\ response.procedures_created < Cardinality(response.ids)

\* C1: after any sequence of imports the summary table holds exactly one
\* summary for every procedure identifier of an import that returned, and
\* none besides: a re-import updates in place and never adds a second row.
C1_OneSummaryPerProcedure ==
    /\ \A i, j \in DOMAIN summaries :
          summaries[i].procedure_id = summaries[j].procedure_id => i = j
    /\ SummaryIds = completed
    /\ Len(summaries) = Cardinality(completed)

C1_Witness ==
    /\ ReimportReturned
    /\ Cardinality(completed) = 2

\* C2: running the aggregator once more on the row-set just imported leaves
\* the table with the same number of summaries and every field of every
\* summary as the first run left it.
C2_AggregatorIdempotent ==
    LastImportReturned =>
        LET again == BuildProcedureSummaries(summaries, response.df)
        IN  /\ again.ok
            /\ again.count = 0
            /\ Len(again.sums) = Len(summaries)
            /\ again.sums = summaries

C2_Witness ==
    /\ ReimportReturned
    /\ Len(transactions) = 2
    /\ transactions[1] = transactions[2]
    /\ transactions[1].charges > 0
    /\ BuildProcedureSummaries(summaries, response.df).sums = summaries

StoredOf(p) == SelectSeq(transactions, LAMBDA t : t.procedure_id = p)

\* C3: after every import that returned, each summary's total_charges,
\* total_payments and total_adjustments are the sums of those columns over
\* all transactions stored for its procedure identifier.
C3_TotalsCoverStore ==
    LastImportReturned =>
        \A i \in DOMAIN summaries :
            LET stored == StoredOf(summaries[i].procedure_id)
            IN  /\ summaries[i].total_charges = SumInts(Col(stored, "charges"))
                /\ summaries[i].total_payments = SumInts(Col(stored, "total_payments"))
                /\ summaries[i].total_adjustments = SumInts(Col(stored, "adjustments"))

\* the priority rule as the specification words it
RuleStatus(charges, payments, adjustments) ==
    IF charges = 0 THEN "pending"
    ELSE IF 100 * payments >= 95 * charges THEN "collected"
    ELSE IF payments > 0 THEN "partial"
    ELSE IF 100 * adjustments >= 95 * charges THEN "written_off"
    ELSE "pending"

\* C4: every stored summary's status is the value the priority rule gives
\* for its current (total_charges, total_payments, total_adjustments), so two
\* summaries with the same triple have the same status.
C4_StatusByRule ==
    /\ \A i \in DOMAIN summaries :
          summaries[i].status =
              Some(RuleStatus(summaries[i].total_charges, summaries[i].total_payments,
                              summaries[i].total_adjustments))
    /\ \A i, j \in DOMAIN summaries :
          (/\ summaries[i].total_charges = summaries[j].total_charges
           /\ summaries[i].total_payments = summaries[j].total_payments
           /\ summaries[i].total_adjustments = summaries[j].total_adjustments)
          => summaries[i].status = summaries[j].status

\* C5: every stored summary's collection_rate is
\* round(total_payments / total_charges * 100, 2) when total_charges > 0 and
\* 0 otherwise, negative total_charges included.
C5_CollectionRate ==
    \A i \in DOMAIN summaries :
        summaries[i].collection_rate =
            IF summaries[i].total_charges > 0
            THEN Some(RoundDiv(summaries[i].total_payments * 10000,
                               summaries[i].total_charges))
            ELSE Some(0)

C5_Witness ==
    /\ \E i \in DOMAIN summaries :
          /\ summaries[i].total_charges = 300
          /\ summaries[i].total_payments = 95
          /\ summaries[i].collection_rate = Some(3167)
    /\ \E i \in DOMAIN summaries :
          /\ summaries[i].total_charges < 0
          /\ summaries[i].collection_rate = Some(0)


-----------------------------------------------------------------------------
(* Properties of the dynamic matrix, checked under SpecMatrix *)

MatrixReturned == response.op = "get_dynamic_matrix" /\ response.status = 200

RequestUsesTransactions ==
    \E i \in DOMAIN response.group_by : response.group_by[i] = "billing_subcategory"

\* the value of a dimension on a transaction, and on a summary
TxDim(t, dim) ==
    IF dim = "surgery_type" THEN t.type_code
    ELSE IF dim = "carrier" THEN t.visit_primary_carrier
    ELSE IF dim = "billing_subcategory" THEN t.billing_subcategory
    ELSE IF dim = "patient" THEN t.chart_number
    ELSE Some(t.procedure_id)

SummaryDim(r, dim) ==
    IF dim = "surgery_type" THEN r.type_code
    ELSE IF dim = "carrier" THEN r.primary_carrier
    ELSE IF dim = "patient" THEN r.chart_number
    ELSE IF dim = "procedure_id" THEN Some(r.procedure_id)
    ELSE None

\* no record of the table the request reads is NULL in a requested dimension
NoNullDimension ==
    \A k \in DOMAIN response.group_by :
        IF RequestUsesTransactions
        THEN \A i \in DOMAIN transactions :
                ~IsNone(TxDim(transactions[i], response.group_by[k]))
        ELSE \A i \in DOMAIN summaries :
                ~IsNone(SummaryDim(summaries[i], response.group_by[k]))

RECURSIVE LeafCharges(_)
LeafCharges(nodes) ==
    IF nodes = <<>> THEN 0
    ELSE (IF IsNone(Head(nodes).child_key) THEN Head(nodes).total_charges
          ELSE LeafCharges(Head(nodes).children))
         + LeafCharges(Tail(nodes))

\* C6: for a valid dimension list and any date range, when no record is NULL
\* in a requested dimension, the total_charges of the leaf nodes add up to
\* the total_charges of the summary block of the same response.
C6_LeafChargesConserved ==
    (MatrixReturned /\ NoNullDimension) =>
        LeafCharges(response.data) = Val(response.summary).total_charges

\* the positions of the records of the request's table in the date range
\* that carry every (dimension, value) pair of a path
PathRows(path) ==
    IF RequestUsesTransactions
    THEN { i \in DOMAIN transactions :
             /\ InDateRange(transactions[i].date_of_service,
                            response.date_from, response.date_to)
             /\ \A k \in DOMAIN path :
                   TxDim(transactions[i], path[k].dim) = Some(path[k].value) }
    ELSE { i \in DOMAIN summaries :
             /\ InDateRange(Val(summaries[i].date_of_service),
                            response.date_from, response.date_to)
             /\ \A k \in DOMAIN path :
                   SummaryDim(summaries[i], path[k].dim) = Some(path[k].value) }

PathCharges(S) ==
    IF RequestUsesTransactions THEN SumOver(transactions, S, "charges")
    ELSE SumOver(summaries, S, "total_charges")

PathPayments(S) ==
    IF RequestUsesTransactions THEN SumOver(transactions, S, "total_payments")
    ELSE SumOver(summaries, S, "total_payments")

PathCount(S) ==
    IF RequestUsesTransactions
    THEN Cardinality({ transactions[i].procedure_id : i \in S })
    ELSE Cardinality(S)

RECURSIVE NodesCoverPaths(_, _)
NodesCoverPaths(nodes, path) ==
    \A k \in DOMAIN nodes :
        LET n == nodes[k]
            here == Append(path, [dim |-> n.dim, value |-> n.value])
            S == PathRows(here)
        IN  /\ n.total_charges = PathCharges(S)
            /\ n.total_payments = PathPayments(S)
            /\ n.procedure_count = PathCount(S)
            /\ \A j \in DOMAIN nodes : j # k => nodes[j].value # n.value
            /\ NodesCoverPaths(n.children, here)

\* C7: every node aggregates exactly the records that carry the dimension
\* values of the node and of all its ancestors, and no two siblings stand
\* for the same value (so no record is counted under two siblings, and every
\* record of a child is a record of its parent).
C7_NodesAggregateConjunction ==
    MatrixReturned => NodesCoverPaths(response.data, <<>>)

\* the groups a node can stand for: a value of its dimension, with the name
\* column's value where the dimension has one
NodeRows(n, path, name) ==
    IF RequestUsesTransactions
    THEN { i \in PathRows(path) :
             /\ TxDim(transactions[i], n.dim) = Some(n.value)
             /\ n.dim = "surgery_type" => transactions[i].surgery_type = name }
    ELSE { i \in PathRows(path) :
             /\ SummaryDim(summaries[i], n.dim) = Some(n.value)
             /\ n.dim = "surgery_type" => summaries[i].surgery_type = name }

NameValues ==
    { transactions[i].surgery_type : i \in DOMAIN transactions }
        \cup { summaries[i].surgery_type : i \in DOMAIN summaries }

SummaryDays(S) ==
    { i \in S : ~IsNone(summaries[i].days_to_first_payment) }

RECURSIVE NodesReadTable(_, _)
NodesReadTable(nodes, path) ==
    \A k \in DOMAIN nodes :
        LET n == nodes[k]
        IN  /\ \E name \in NameValues :
                 LET S == NodeRows(n, path, name)
                 IN  /\ S # {}
                     /\ n.total_charges = PathCharges(S)
                     /\ n.total_payments = PathPayments(S)
                     /\ IF RequestUsesTransactions
                        THEN /\ n.procedure_count =
                                  Cardinality({ transactions[i].procedure_id : i \in S })
                             /\ IsNone(n.avg_days_to_payment)
                        ELSE /\ n.procedure_count = Cardinality(S)
                             /\ (SummaryDays(S) = {} => IsNone(n.avg_days_to_payment))
            /\ NodesReadTable(n.children, Append(path, [dim |-> n.dim, value |-> n.value]))

\* C8: when billing_subcategory is anywhere in the dimension list, every node
\* and the summary block are computed from the transactions table, a node's
\* procedure_count is the number of distinct procedure identifiers of its
\* transactions and its avg_days_to_payment is null; otherwise every node and
\* the summary block are computed from the procedure_summary table.
C8_TableSwitch ==
    MatrixReturned =>
        /\ NodesReadTable(response.data, <<>>)
        /\ LET S == PathRows(<<>>)
           IN  /\ Val(response.summary).total_procedures = PathCount(S)
               /\ Val(response.summary).total_charges = PathCharges(S)
               /\ Val(response.summary).total_payments = PathPayments(S)

C8_Witness ==
    /\ MatrixReturned
    /\ Len(response.group_by) = 2
    /\ response.group_by[1] = "carrier"
    /\ response.group_by[2] = "billing_subcategory"
    /\ Len(response.data) = 1
    /\ response.data[1].procedure_count = 1
    /\ response.data[1].total_charges = 200
    /\ Len(response.data[1].children) = 2
    /\ IsNone(response.data[1].children[1].avg_days_to_payment)

ValidGroupBys == SeqsUpTo(DimNames, MaxDims)

\* C9: for the tables as they are and the date range of the request, every
\* valid dimension list yields the summary block this response carries.
C9_SummaryIndependentOfGrouping ==
    MatrixReturned =>
        \A g \in ValidGroupBys :
            DynamicMatrix(g, response.date_from, response.date_to).summary
                = Val(response.summary)

\* C10: a request with a name outside the five dimensions fails at once: no
\* grouped query runs, no tree and no summary is returned, and the caller
\* gets a 4xx status with a message that describes the error.
C10_UnknownDimensionRejected ==
    (response.op = "get_dynamic_matrix" /\ InvalidDimension(response.group_by)) =>
        /\ response.queries = 0
        /\ response.data = <<>>
        /\ IsNone(response.summary)
        /\ response.status \in 400..499
        /\ response.detail # "Internal Server Error"

-----------------------------------------------------------------------------
(* Properties of the recovery rates, checked under SpecRecovery *)

RecoveryReturned == response.op = "calculate_recovery_rates"

\* C11: whatever the tables hold and whatever the cohort filter is, the
\* percent values returned for the 1, 3, 6 and 12 month windows never
\* decrease from one window to the next, none exceeds 100 and none is below 0
C11_RecoveryMonotone ==
    RecoveryReturned =>
        LET r == response.body.recovery
        IN  /\ \A w \in DOMAIN r : r[w].percent >= 0 /\ r[w].percent <= 10000
            /\ \A w \in 1..(Len(r) - 1) : r[w].percent <= r[w + 1].percent

\* a cohort paid in two instalments, the second one deposited after the
\* first window closed
C11_Witness ==
    /\ RecoveryReturned
    /\ LET r == response.body.recovery
       IN  /\ 0 < r[1].percent
           /\ r[1].percent < r[2].percent
           /\ r[4].percent < 10000

\* the procedures of the answered request's cohort
RequestCohort ==
    Cohort(response.request.date_from, response.request.date_to,
           response.request.patient_id)

\* every payment line of the procedure was deposited within 30 days after
\* its date of service and not after the day of the request
PaidWithinMonth(i) ==
    \A k \in DOMAIN transactions :
        (transactions[k].procedure_id = summaries[i].procedure_id
         /\ transactions[k].total_payments # 0) =>
            /\ ~IsNone(transactions[k].date_of_deposit)
            /\ Val(transactions[k].date_of_deposit) >= Val(summaries[i].date_of_service)
            /\ Val(transactions[k].date_of_deposit) <= Val(summaries[i].date_of_service) + 30
            /\ Val(transactions[k].date_of_deposit) <= response.request.today

\* C12: for a cohort whose payments were all deposited within 30 days of the
\* date of service (and by today), the four windows return the same figures,
\* the amount is the cohort's total payments and the percent is
\* min(100, total_payments / total_charges * 100)
C12_PaidWithinMonthAllEqual ==
    (RecoveryReturned /\ RequestCohort # {} /\ \A i \in RequestCohort : PaidWithinMonth(i)) =>
        LET r == response.body.recovery
            tp == response.body.total_payments
            tc == response.body.total_charges
        IN  /\ \A w \in DOMAIN r : r[w] = r[1]
            /\ r[1].amount = tp
            /\ tc > 0 => r[1].percent =
                           (IF RoundDiv(tp * 10000, tc) > 10000 THEN 10000
                            ELSE RoundDiv(tp * 10000, tc))

-----------------------------------------------------------------------------
(* Failure of an import, checked under Spec and SpecUpload *)

\* C13: an import that raises leaves no row of its own behind: the
\* transactions table and the procedure_summary table are as they were
\* before it started
C13_FailedImportLeavesNothing ==
    [][ (response'.op = "process_upload" /\ ~response'.ok) =>
            (transactions' = transactions /\ summaries' = summaries) ]_vars

UploadReturned == response.op = "upload_file"

\* the file is accepted, was written, parses, and its columns let the
\* aggregation run
CleanUpload ==
    /\ UploadReturned
    /\ response.request.ext \in {".xlsx", ".xls"}
    /\ response.request.saved
    /\ response.request.sheet.parses
    /\ ~GroupRaises(response.request.sheet.df.cols)

\* C14: an accepted file that parses and aggregates without data errors is
\* imported: the response is 200 with status "completed", rows_imported is
\* the number of rows appended to the transactions table, and those rows
\* are the last ones of the table
C14_CleanUploadCompletes ==
    CleanUpload =>
        LET rows == response.request.sheet.df.rows
            n == Len(rows)
        IN  /\ response.status = 200
            /\ response.body # <<>>
            /\ response.body.status = "completed"
            /\ response.body.rows_imported = n
            /\ Len(transactions) >= n
            /\ SubSeq(transactions, Len(transactions) - n + 1, Len(transactions))
                   = [i \in 1..n |-> ToTransaction(rows[i])]

-----------------------------------------------------------------------------
(* Imports in flight together, checked under SpecRace *)

\* two imports were in flight at the same time
Raced(i, j) == i \in sessions[j].began_with \/ j \in sessions[i].began_with

\* the value import i computed for identifier p, as an INSERT stores it
WrittenBy(i, p) ==
    LET n == CHOOSE x \in DOMAIN sessions[i].pending :
                 sessions[i].pending[x].procedure_id = p
    IN  StatusDefault(sessions[i].pending[n].new)

\* the import that committed last among those holding identifier p
LastCommitter(p) ==
    CHOOSE i \in DOMAIN sessions :
        /\ sessions[i].seq > 0 /\ p \in GroupKeys(sessions[i].df)
        /\ \A j \in DOMAIN sessions :
               (sessions[j].seq > 0 /\ p \in GroupKeys(sessions[j].df)) =>
                   sessions[j].seq <= sessions[i].seq

\* C15: two imports that hold the same identifier and were in flight
\* together both return without an error, and the stored summary of the
\* identifier is the one computed by the import that committed last
C15_LastCommitWins ==
    \A i, j \in DOMAIN sessions : \A p \in ProcIds :
        ( /\ i # j /\ Raced(i, j)
          /\ \A n \in DOMAIN sessions : Finished(sessions[n])
          /\ p \in GroupKeys(sessions[i].df) \cap GroupKeys(sessions[j].df) ) =>
            /\ sessions[i].pc = "returned"
            /\ sessions[j].pc = "returned"
            /\ summaries[Val(FindExisting(summaries, p))] = WrittenBy(LastCommitter(p), p)

-----------------------------------------------------------------------------
(* The average of days_to_first_payment, checked under SpecMatrix *)

\* the mean of days_to_first_payment over the rows of S that carry one, in
\* tenths of a day
MeanDays(S) ==
    LET have == SummaryDays(S)
        days == [i \in DOMAIN summaries |->
                    [d |-> IF i \in have THEN Val(summaries[i].days_to_first_payment)
                           ELSE 0]]
    IN  RoundDiv(SumOver(days, have, "d") * 10, Cardinality(have))

RECURSIVE NodesAverageDays(_, _)
NodesAverageDays(nodes, path) ==
    \A k \in DOMAIN nodes :
        LET n == nodes[k]
        IN  /\ \E name \in NameValues :
                 LET S == NodeRows(n, path, name)
                 IN  /\ S # {}
                     /\ n.total_charges = PathCharges(S)
                     /\ n.procedure_count = Cardinality(S)
                     /\ IsNone(n.avg_days_to_payment) <=> SummaryDays(S) = {}
                     /\ SummaryDays(S) # {} =>
                            n.avg_days_to_payment = Some(MeanDays(S))
            /\ NodesAverageDays(n.children, Append(path, [dim |-> n.dim, value |-> n.value]))

\* C16: every grouped row computed from procedure_summary reports
\* avg_days_to_payment as the mean of days_to_first_payment over the rows of
\* its group that have one, and reports null exactly when no row of the
\* group has one
C16_AverageDaysOverNonNull ==
    (MatrixReturned /\ ~RequestUsesTransactions) =>
        NodesAverageDays(response.data, <<>>)

-----------------------------------------------------------------------------
(* The anomaly lists, checked under SpecAnomaly *)

Listed == { response.body.procedures[k].procedure_id : k \in DOMAIN response.body.procedures }

ListedOnce ==
    \A k, n \in DOMAIN response.body.procedures :
        response.body.procedures[k].procedure_id = response.body.procedures[n].procedure_id
            => k = n

RequestedRange(s) ==
    ServiceDateInRange(s, response.request.date_from, response.request.date_to)

\* C17: a procedure is in the payment-exceeds-charge list exactly when its
\* summary has total_payments > total_charges > 0 and its date of service
\* is in the requested range; its overpayment is total_payments -
\* total_charges and its overpayment_percent is overpayment / total_charges
\* * 100
C17_PaymentExceedsChargeList ==
    response.op = "detect_payments_exceed_charges" =>
        /\ ListedOnce
        /\ \A i \in DOMAIN summaries :
               summaries[i].procedure_id \in Listed <=>
                   /\ summaries[i].total_payments > summaries[i].total_charges
                   /\ summaries[i].total_charges > 0
                   /\ RequestedRange(summaries[i])
        /\ \A k \in DOMAIN response.body.procedures :
               LET e == response.body.procedures[k]
                   s == summaries[Val(FindExisting(summaries, e.procedure_id))]
               IN  /\ e.overpayment = s.total_payments - s.total_charges
                   /\ e.overpayment_percent =
                          RoundDiv((s.total_payments - s.total_charges) * 10000,
                                   s.total_charges)

\* charges 500.00 and payments 600.00: listed with 100.00 and 20.0
C17_Witness ==
    /\ response.op = "detect_payments_exceed_charges"
    /\ \E k \in DOMAIN response.body.procedures :
           LET e == response.body.procedures[k]
           IN  /\ e.total_charges = 50000
               /\ e.total_payments = 60000
               /\ e.overpayment = 10000
               /\ e.overpayment_percent = 2000

\* C18: a procedure is in the missing-payments list for threshold T exactly
\* when its date of service is at least T days before today, its
\* total_charges > 0, its total_payments is 0 and its date of service is in
\* the requested range; its days_since_dos is today minus its date of
\* service
C18_MissingPaymentsList ==
    response.op = "detect_missing_payments" =>
        LET today == response.request.today
            T == response.request.days_threshold
        IN  /\ ListedOnce
            /\ \A i \in DOMAIN summaries :
                   summaries[i].procedure_id \in Listed <=>
                       /\ today - Val(summaries[i].date_of_service) >= T
                       /\ summaries[i].total_charges > 0
                       /\ summaries[i].total_payments = 0
                       /\ RequestedRange(summaries[i])
            /\ \A k \in DOMAIN response.body.procedures :
                   LET e == response.body.procedures[k]
                   IN  e.days_since_dos = today - Val(e.date_of_service)

-----------------------------------------------------------------------------
(* Not-found signalling, checked under SpecLookup *)

LookupOps ==
    { "get_patient", "get_patient_procedures", "get_patient_timeline",
      "get_procedure", "get_procedure_timeline" }

\* the rows of the table the endpoint reads that carry the identifier
MatchingRecords ==
    LET id == response.request.id
    IN  IF response.op \in {"get_patient", "get_patient_procedures"}
        THEN { i \in DOMAIN summaries : summaries[i].chart_number = Some(id) }
        ELSE IF response.op = "get_patient_timeline"
        THEN { i \in DOMAIN transactions : transactions[i].chart_number = Some(id) }
        ELSE IF response.op = "get_procedure"
        THEN { i \in DOMAIN summaries : summaries[i].procedure_id = id }
        ELSE { i \in DOMAIN transactions : transactions[i].procedure_id = id }

\* the records a successful answer carries
AnsweredRecords ==
    IF response.op = "get_patient" THEN response.body.procedure_count
    ELSE IF response.op = "get_procedure"
    THEN Len(response.body.procedure) * Len(response.body.transactions)
    ELSE Len(response.body)

\* C19: the five look-ups by patient or procedure identifier answer 404
\* whenever no record carries the identifier, and a successful answer is
\* never empty
C19_NotFoundSignalled ==
    response.op \in LookupOps =>
        /\ response.status \in {200, 404}
        /\ MatchingRecords = {} => response.status = 404
        /\ response.status = 200 => AnsweredRecords > 0

\* an identifier never imported is asked for while the tables hold others
C19_Witness ==
    /\ response.op = "get_procedure_timeline"
    /\ response.request.id = "P3"
    /\ response.status = 404
    /\ transactions # <<>>

-----------------------------------------------------------------------------
(* The frame of imports and queries, checked under SpecQueries *)

\* C20: an import, returning or raising, only adds rows at the end of the
\* transactions table and leaves every earlier row as it was; a grouping,
\* recovery, anomaly or look-up query changes neither the transactions
\* table nor the procedure_summary table
C20_TransactionsAppendOnly ==
    [][ /\ Len(transactions') >= Len(transactions)
        /\ SubSeq(transactions', 1, Len(transactions)) = transactions
        /\ response'.op # "process_upload" =>
               (transactions' = transactions /\ summaries' = summaries) ]_vars

\* an import that raised, its rows stored behind the rows of an earlier one
C20_Witness ==
    /\ response.op = "process_upload"
    /\ ~response.ok
    /\ Len(transactions) > Len(response.df.rows)
    /\ summaries # <<>>

-----------------------------------------------------------------------------
(* The order of siblings, checked under SpecOrder *)

\* the total charges of a node; a billing category carries them as 'charges'
NodeCharges(n) ==
    IF "total_charges" \in DOMAIN n THEN n.total_charges ELSE n.charges

IndexOf(keys, v) == CHOOSE k \in DOMAIN keys : keys[k] = v

\* the nodes are the groups `keys`, in descending order of total charges,
\* nodes of equal total charges in the order of `keys`
Ordered(nodes, keys) ==
    /\ Len(nodes) = Len(keys)
    /\ \A i \in DOMAIN nodes : \E k \in DOMAIN keys : keys[k] = nodes[i].value
    /\ \A i, j \in DOMAIN nodes :
         i < j =>
           /\ NodeCharges(nodes[i]) >= NodeCharges(nodes[j])
           /\ NodeCharges(nodes[i]) = NodeCharges(nodes[j]) =>
                IndexOf(keys, nodes[i].value) < IndexOf(keys, nodes[j].value)

\* every level of a dynamic matrix against the order of its grouped query
RECURSIVE DynamicOrdered(_, _, _)
DynamicOrdered(nodes, filters, dims) ==
    dims # <<>> =>
      LET useTx == UseTransactionTable(response.group_by)
          dim == Head(dims)
          rows == LevelRows(useTx, dim, filters, response.date_from, response.date_to)
          keys == KeysInOrder(useTx, dim, rows, 1, <<>>)
      IN  /\ Ordered(nodes, [k \in DOMAIN keys |-> keys[k].value])
          /\ \A i \in DOMAIN nodes :
                DynamicOrdered(nodes[i].children,
                    SelectSeq(filters, LAMBDA f : f.dim # dim)
                        \o <<[dim |-> dim, value |-> nodes[i].value]>>,
                    Tail(dims))

\* every level of a matrix of nested summary queries
RECURSIVE LevelsOrdered(_, _, _)
LevelsOrdered(nodes, S, cols) ==
    cols # <<>> =>
      /\ Ordered(nodes, ColumnKeys(summaries, Head(cols), S, 1, <<>>))
      /\ \A i \in DOMAIN nodes :
            LevelsOrdered(nodes[i].children,
                { r \in S : summaries[r][Head(cols)] = Some(nodes[i].value) },
                Tail(cols))

\* the surgery-insurance matrix: types against the order of the loop,
\* carriers and billing categories against the order of their queries
SurgeryOrdered(nodes) ==
    LET inRange == SummariesInRange(response.date_from, response.date_to)
        billing(tc, c) ==
            { r \in DOMAIN transactions :
                /\ transactions[r].type_code = Some(tc)
                /\ transactions[r].visit_primary_carrier = Some(c)
                /\ ~IsNone(transactions[r].billing_subcategory)
                /\ InDateRange(transactions[r].date_of_service,
                               response.date_from, response.date_to) }
    IN  /\ Ordered(nodes, response.request)
        /\ \A i \in DOMAIN nodes :
             LET tc == nodes[i].value
                 T == { r \in inRange : summaries[r].type_code = Some(tc) }
             IN  /\ Ordered(nodes[i].children,
                            ColumnKeys(summaries, "primary_carrier", T, 1, <<>>))
                 /\ \A j \in DOMAIN nodes[i].children :
                      Ordered(nodes[i].children[j].children,
                              ColumnKeys(transactions, "billing_subcategory",
                                         billing(tc, nodes[i].children[j].value),
                                         1, <<>>))

-----------------------------------------------------------------------------
(* The upload handler's rejections, checked under SpecUpload *)

\* C22: a POST /api/upload/ whose filename ends in neither .xlsx nor .xls
\* is answered 400, and the step that answers it writes no file, creates
\* no Upload record and leaves the transactions and procedure_summary
\* tables as they were
C22_WrongExtensionRejected ==
    [][ (response'.op = "upload_file"
           /\ response'.request.ext \notin {".xlsx", ".xls"}) =>
          /\ response'.status = 400
          /\ files' = files
          /\ uploads' = uploads
          /\ transactions' = transactions
          /\ summaries' = summaries ]_vars

\* a .csv file rejected after an earlier upload left its file and record
C22_Witness ==
    /\ response.op = "upload_file"
    /\ response.request.ext = ".csv"
    /\ response.status = 400
    /\ files # <<>>
    /\ uploads # <<>>

-----------------------------------------------------------------------------
(* Re-import, checked under Spec *)

\* the summary a fresh aggregator computes from one group on an empty store
FreshSummary(p, df) ==
    StatusDefault(SummarizeGroup(NewSummary(p), GroupOf(df, p), df.cols))

\* C23: after an import that returned, the summary of every procedure of
\* the import equals, field by field, the summary a fresh aggregator
\* computes from that import's group of the procedure on an empty store; no
\* field keeps a value of an earlier import
C23_ReimportOverwrites ==
    LastImportReturned =>
        \A p \in response.ids :
            LET existing == FindExisting(summaries, p)
            IN  /\ ~IsNone(existing)
                /\ summaries[Val(existing)] = FreshSummary(p, response.df)

-----------------------------------------------------------------------------
(* The recovery horizons, checked under SpecRecovery *)

\* the date the clock gave while horizon w of the answered request was
\* computed
HorizonToday(w) ==
    IF w < response.request.rollover THEN response.request.today
    ELSE response.request.today + 1

\* the stored payment lines of the cohort's procedures that horizon w counts
HorizonLines(w) ==
    { k \in DOMAIN transactions :
        /\ transactions[k].total_payments > 0
        /\ ~IsNone(transactions[k].date_of_deposit)
        /\ \E i \in RequestCohort :
              /\ transactions[k].procedure_id = summaries[i].procedure_id
              /\ Val(transactions[k].date_of_deposit)
                    <= Val(summaries[i].date_of_service) + WindowDays[w]
              /\ Val(transactions[k].date_of_deposit) <= HorizonToday(w) }

-----------------------------------------------------------------------------
(* Absent columns, checked under Spec *)

\* C25: an import of a row-set that lacks any of the optional columns never
\* fails: the aggregator completes, and the summaries of the import carry 0
\* for the total of a column that is absent
C25_AbsentColumnsNeverFail ==
    response.op = "process_upload" =>
        /\ response.ok
        /\ \A p \in response.ids :
              LET existing == FindExisting(summaries, p)
              IN  /\ ~IsNone(existing)
                  /\ "charges" \notin response.df.cols =>
                        summaries[Val(existing)].total_charges = 0
                  /\ "total_payments" \notin response.df.cols =>
                        summaries[Val(existing)].total_payments = 0
                  /\ "adjustments" \notin response.df.cols =>
                        summaries[Val(existing)].total_adjustments = 0

-----------------------------------------------------------------------------
(* The distribution and the aging report, checked under SpecDistribution *)

DistributionReturned == response.op = "get_days_to_payment_distribution"

\* the summaries the answered distribution request is about
Population ==
    { i \in DOMAIN summaries :
        /\ ~IsNone(summaries[i].days_to_first_payment)
        /\ ApplyFilters(summaries[i], response.request.date_from,
                        response.request.date_to, response.request.patient_id,
                        response.request.type_code, response.request.carrier) }

DaysOf(i) == Val(summaries[i].days_to_first_payment)

\* C26: median_days is the element at 0-based index floor(n / 2) of the
\* ascending list of the n non-null days_to_first_payment values of the
\* filtered population: a value of the population with at most floor(n / 2)
\* values below it and at least floor(n / 2) + 1 values not above it; the
\* upper of the two middle values for even n, never their mean
C26_MedianIsUpperMiddle ==
    (DistributionReturned /\ Population # {}) =>
        LET n == Cardinality(Population)
            m == Val(response.body.median_days)
        IN  /\ ~IsNone(response.body.median_days)
            /\ \E i \in Population : DaysOf(i) = m
            /\ Cardinality({ i \in Population : DaysOf(i) < m }) <= n \div 2
            /\ Cardinality({ i \in Population : DaysOf(i) <= m }) >= (n \div 2) + 1

\* the values 10, 20, 30 and 200: the median returned is 30
C26_Witness ==
    /\ DistributionReturned
    /\ { DaysOf(i) : i \in Population } = {10, 20, 30, 200}
    /\ Cardinality(Population) = 4
    /\ response.body.median_days = Some(30)


AgingReturned == response.op = "get_aging_report"

\* the pending and partial summaries the answered aging request is about
Outstanding ==
    { i \in DOMAIN summaries :
        /\ summaries[i].status \in {Some("pending"), Some("partial")}
        /\ IsNone(response.request.type_code)
             \/ summaries[i].type_code = response.request.type_code
        /\ IsNone(response.request.carrier)
             \/ summaries[i].primary_carrier = response.request.carrier }

\* the days elapsed since the date of service on the day of the request
Age(i) == response.request.today - Val(summaries[i].date_of_service)

Balance(i) == summaries[i].total_charges - summaries[i].total_payments

\* the bucket of an age: 0-30, 31-60, 61-90, 91-120, 120+
BucketOfAge(a) ==
    IF a <= 30 THEN 1 ELSE IF a <= 60 THEN 2 ELSE IF a <= 90 THEN 3
    ELSE IF a <= 120 THEN 4 ELSE 5

\* C27: the aging report counts only summaries whose status is pending or
\* partial; each of them whose date of service is not after the day of the
\* request is counted in exactly one of the five buckets, the one of its
\* age; a bucket's total_outstanding is the sum of total_charges -
\* total_payments of its procedures, and its percent is its share of the
\* sum of all buckets' outstanding, 0 when that sum is not positive
C27_AgingBuckets ==
    AgingReturned =>
        LET aged == { i \in Outstanding : Age(i) >= 0 }
            members(b) == { i \in aged : BucketOfAge(Age(i)) = b }
            balance(b) == SumInts([k \in 1..Len(summaries) |->
                                     IF k \in members(b) THEN Balance(k) ELSE 0])
            all == SumInts([b \in 1..5 |-> balance(b)])
        IN  /\ Len(response.data) = 5
            /\ \A b \in 1..5 :
                  /\ response.data[b].procedure_count = Cardinality(members(b))
                  /\ response.data[b].total_outstanding = balance(b)
                  /\ response.data[b].percent =
                       IF all > 0 THEN RoundDiv(balance(b) * 1000, all) ELSE 0
            /\ SumInts([b \in 1..5 |-> response.data[b].procedure_count])
                 = Cardinality(aged)

\* a report with procedures aged exactly 30 days and more than 120 days,
\* next to a collected procedure that is counted nowhere
C27_Witness ==
    /\ AgingReturned
    /\ \E i \in Outstanding : Age(i) = 30
    /\ \E i \in Outstanding : Age(i) > 120
    /\ \E i \in DOMAIN summaries : summaries[i].status = Some("collected")
    /\ response.data[1].procedure_count > 0
    /\ response.data[5].procedure_count > 0

\* C28: the seven buckets of get_days_to_payment_distribution partition the
\* filtered population: the bucket counts sum to the number of summaries
\* with a days_to_first_payment that pass the filters, which is the
\* denominator of the percents, also when a stored day count is negative
C28_BucketsPartitionPopulation ==
    (DistributionReturned /\ Population # {}) =>
        SumInts([b \in DOMAIN response.body.distribution |->
                    response.body.distribution[b].count])
            = Cardinality(Population)

-----------------------------------------------------------------------------
(* The Upload record, checked under SpecUpload *)

\* the answered request created an Upload record: its file type was
\* accepted and its file was written
RecordCreated ==
    /\ response.op = "upload_file"
    /\ response.request.ext \in {".xlsx", ".xls"}
    /\ response.request.saved

-----------------------------------------------------------------------------
(* The procedures count of an import, checked under Spec *)

\* C30: the procedures count an import returns equals the number of
\* distinct procedure identifiers of the imported row-set, whether their
\* summaries were created or updated in place
C30_ProceduresCountIsDistinctIds ==
    LastImportReturned =>
        response.procedures_created = Cardinality(GroupKeys(response.df))

=============================================================================
